---- MODULE Spec2Model ----
(***************************************************************************)
(* Model of the cart-state extraction and reconciliation pipeline of the   *)
(* Rohlik shopping agent (src/strands-agent/rohlik_agent.py).              *)
(*                                                                         *)
(* Text.  A Python str is modelled as a sequence of lexemes (TLA+ strings):*)
(* words, numbers' digit groups and single punctuation marks, with " " and *)
(* "\n" as lexemes of their own.  Every string literal the code searches   *)
(* for, splits on or strips is a sequence of whole lexemes, so the code's  *)
(* str operations (in, startswith, split, strip, replace, slicing off a    *)
(* matched prefix) are the same operations on lexeme sequences.            *)
(*                                                                         *)
(* Values.  A dynamically typed Python value is a record tagged by ty:     *)
(* none, str (s: lexemes), int (v), float (c: hundredths), dict (d: a      *)
(* function from keys), list (l: a sequence), exc (e: the exception type). *)
(***************************************************************************)
EXTENDS Integers, Sequences, FiniteSets, TLC

\* ------------------------------------------------------------------ text

SP == " "
NL == "\n"
Whitespace == {SP, NL}

Min(S) == CHOOSE x \in S : \A y \in S : x <= y

Drop(s, n) == SubSeq(s, n + 1, Len(s))

Take(s, n) == SubSeq(s, 1, n)

\* s[i:].startswith(p), i counted from 1
StartsWithAt(s, i, p) ==
    /\ i + Len(p) - 1 <= Len(s)
    /\ SubSeq(s, i, i + Len(p) - 1) = p

StartsWith(s, p) == StartsWithAt(s, 1, p)

EndsWith(s, p) == Len(p) <= Len(s) /\ SubSeq(s, Len(s) - Len(p) + 1, Len(s)) = p

\* s.find(p, from): the lowest index >= from at which p occurs, 0 when none
Find(s, p, from) ==
    LET hits == {i \in from..(Len(s) - Len(p) + 1) : StartsWithAt(s, i, p)}
    IN  IF hits = {} THEN 0 ELSE Min(hits)

\* p in s
Contains(s, p) == Find(s, p, 1) # 0

RECURSIVE LStrip(_)
LStrip(s) == IF s # <<>> /\ Head(s) \in Whitespace THEN LStrip(Tail(s)) ELSE s

RECURSIVE RStrip(_)
RStrip(s) ==
    IF s # <<>> /\ s[Len(s)] \in Whitespace THEN RStrip(Take(s, Len(s) - 1)) ELSE s

\* s.strip()
Strip(s) == RStrip(LStrip(s))

\* s.split(sep)
RECURSIVE Split(_, _)
Split(s, sep) ==
    LET i == Find(s, sep, 1)
    IN  IF i = 0 THEN <<s>>
        ELSE <<Take(s, i - 1)>> \o Split(Drop(s, i + Len(sep) - 1), sep)

\* sep.join(parts)
RECURSIVE Join(_, _)
Join(parts, sep) ==
    IF parts = <<>> THEN <<>>
    ELSE IF Len(parts) = 1 THEN parts[1]
    ELSE parts[1] \o sep \o Join(Tail(parts), sep)

\* s.replace(old, new)
RECURSIVE Replace(_, _, _)
Replace(s, old, new) ==
    LET i == Find(s, old, 1)
    IN  IF i = 0 THEN s
        ELSE Take(s, i - 1) \o new \o Replace(Drop(s, i + Len(old) - 1), old, new)

\* ---------------------------------------------------------------- values

PyNone == [ty |-> "none"]

PyStr(s) == [ty |-> "str", s |-> s]

PyInt(v) == [ty |-> "int", v |-> v]

PyFloat(c) == [ty |-> "float", c |-> c]

PyDict(d) == [ty |-> "dict", d |-> d]

PyList(l) == [ty |-> "list", l |-> l]

PyExc(e) == [ty |-> "exc", e |-> e]

EmptyMap == [k \in {} |-> PyNone]

\* d[k] = v
Put(d, k, v) == (k :> v) @@ d

\* bool(v)
Truthy(v) ==
    CASE v.ty = "none" -> FALSE
      [] v.ty = "str" -> v.s # <<>>
      [] v.ty = "int" -> v.v # 0
      [] v.ty = "float" -> v.c # 0
      [] v.ty = "dict" -> DOMAIN v.d # {}
      [] v.ty = "list" -> v.l # <<>>
      [] OTHER -> TRUE

IsExc(v) == v.ty = "exc"

\* ------------------------------------------- transcript summary parser

MARKER == <<"TOOL_CALLS_SUMMARY", ":">>

DashTool == <<"-", SP, "Tool", ":">>

PipeSep == <<SP, "|", SP>>

Key(w) == <<w, ":", SP>>

GetCartContent == <<"get_cart_content">>

AddToCart == <<"add_to_cart">>

\* the record a '- Tool:' line starts with (lines 431-436)
NewToolCall ==
    [tool_name |-> <<"unknown">>, arguments |-> PyDict(EmptyMap),
     result |-> PyDict(EmptyMap), status |-> "success"]

SetArg(call, k, part, prefix) ==
    [call EXCEPT !.arguments = PyDict(Put(call.arguments.d, k, PyStr(Drop(part, Len(prefix)))))]

SetRes(call, k, part, prefix) ==
    [call EXCEPT !.result = PyDict(Put(call.result.d, k, PyStr(Drop(part, Len(prefix)))))]

\* one iteration of `for part in parts` (lines 438-469)
ParsePart(st, part) ==
    LET c == st.cur[1]
        put(call) == [st EXCEPT !.cur = <<call>>]
    IN  IF StartsWith(part, Key("Tool"))
          THEN put([c EXCEPT !.tool_name = Drop(part, 3)])
        ELSE IF StartsWith(part, Key("Query"))
          THEN put(SetArg(c, "product_name", part, Key("Query")))
        ELSE IF StartsWith(part, Key("Results"))
          THEN put(SetRes(c, "results_count", part, Key("Results")))
        ELSE IF StartsWith(part, Key("Selected"))
          THEN put(SetRes(c, "selected_product", part, Key("Selected")))
        ELSE IF StartsWith(part, Key("Price"))
          THEN put(SetRes(c, "price", part, Key("Price")))
        ELSE IF StartsWith(part, Key("Categories"))
          THEN put(SetRes(c, "categories", part, Key("Categories")))
        ELSE IF StartsWith(part, Key("Products"))
          THEN put(SetArg(c, "products", part, Key("Products")))
        ELSE IF StartsWith(part, Key("Quantity"))
          THEN put(SetArg(c, "quantity", part, Key("Quantity")))
        ELSE IF StartsWith(part, <<"Total", SP, "Cost", ":", SP>>)
          THEN put(SetRes(c, "total_cost", part, <<"Total", SP, "Cost", ":", SP>>))
        ELSE IF StartsWith(part, Key("Total"))
          THEN put(SetRes(c, "total_cost", part, Key("Total")))
        ELSE IF StartsWith(part, Key("Result"))
          THEN IF c.tool_name = GetCartContent
                 THEN LET result_content == Strip(Drop(part, 3))
                      IN  [st EXCEPT !.in_cart_content = TRUE,
                                     !.cart_content_lines =
                                         IF result_content # <<>>
                                           THEN <<result_content>> ELSE <<>>]
                 ELSE put(SetRes(c, "cart_summary", part, Key("Result")))
        ELSE st

RECURSIVE ParseParts(_, _, _)
ParseParts(st, parts, i) ==
    IF i > Len(parts) THEN st ELSE ParseParts(ParsePart(st, parts[i]), parts, i + 1)

\* the body of `for i, line in enumerate(lines)` (lines 418-486)
ParseLine(st, line) ==
    IF Contains(line, MARKER)
      THEN [st EXCEPT !.in_summary = TRUE]
    ELSE IF st.in_summary /\ StartsWith(Strip(line), DashTool)
      THEN LET saved == [st EXCEPT !.tool_calls = st.tool_calls \o st.cur,
                                   !.cur = <<NewToolCall>>]
           IN  ParseParts(saved, Split(Drop(Strip(line), 2), PipeSep), 1)
    ELSE IF st.in_summary /\ st.in_cart_content /\ st.cur # <<>>
      THEN IF \/ StartsWith(Strip(line), <<SP, SP, "-", SP, "Product", ":">>)
              \/ StartsWith(Strip(line), <<SP, SP, "-", SP, "Total", ":">>)
             THEN [st EXCEPT !.cart_content_lines = Append(st.cart_content_lines, Strip(line))]
           ELSE IF Strip(line) = <<>> \/ StartsWith(Strip(line), DashTool)
             THEN [st EXCEPT
                     !.cur = IF st.cart_content_lines # <<>>
                               THEN <<[st.cur[1] EXCEPT !.result =
                                         PyDict(Put(st.cur[1].result.d, "cart_summary",
                                                    PyStr(Join(st.cart_content_lines, <<NL>>))))]>>
                               ELSE st.cur,
                     !.in_cart_content = FALSE,
                     !.cart_content_lines = <<>>]
           ELSE st
    ELSE IF st.in_summary /\ Strip(line) = <<>>
      THEN [st EXCEPT !.tool_calls = st.tool_calls \o st.cur, !.stop = TRUE]
    ELSE st

RECURSIVE ParseLines(_, _, _)
ParseLines(st, lines, i) ==
    IF i > Len(lines) \/ st.stop THEN st
    ELSE ParseLines(ParseLine(st, lines[i]), lines, i + 1)

ParseInit ==
    [tool_calls |-> <<>>, in_summary |-> FALSE, cur |-> <<>>,
     cart_content_lines |-> <<>>, in_cart_content |-> FALSE, stop |-> FALSE]

\* _parse_tool_calls_from_response: the list of records it returns
parse_tool_calls_from_response(response_text) ==
    IF Contains(response_text, MARKER)
      THEN LET st == ParseLines(ParseInit, Split(response_text, <<NL>>), 1)
           IN  st.tool_calls \o st.cur
      ELSE <<>>

\* ------------------------------------------------------------- numbers

\* The decimal digit groups of the model's texts: v is int(lexeme) and n the
\* number of digits of the lexeme.
DigitLex ==
    ("0" :> [v |-> 0, n |-> 1] @@ "1" :> [v |-> 1, n |-> 1] @@
     "2" :> [v |-> 2, n |-> 1] @@ "3" :> [v |-> 3, n |-> 1] @@
     "5" :> [v |-> 5, n |-> 1] @@ "12" :> [v |-> 12, n |-> 2] @@
     "50" :> [v |-> 50, n |-> 2] @@ "56" :> [v |-> 56, n |-> 2] @@
     "68" :> [v |-> 68, n |-> 2] @@ "79" :> [v |-> 79, n |-> 2] @@
     "89" :> [v |-> 89, n |-> 2] @@ "99" :> [v |-> 99, n |-> 2] @@
     "234" :> [v |-> 234, n |-> 3] @@
     "57" :> [v |-> 57, n |-> 2])

IsDigits(tok) == tok \in DOMAIN DigitLex

\* the value of the fraction ".<tok>" in hundredths (the model's floats keep
\* two decimals; a longer fraction is cut)
FracHundredths(tok) ==
    LET d == DigitLex[tok]
    IN  IF d.n = 1 THEN d.v * 10 ELSE IF d.n = 2 THEN d.v ELSE d.v \div 10

\* int(s) of a str: the int, or ValueError
IntOfStr(s) ==
    LET t == Strip(s)
    IN  IF Len(t) = 1 /\ IsDigits(t[1]) THEN PyInt(DigitLex[t[1]].v)
        ELSE IF Len(t) = 2 /\ t[1] \in {"-", "+"} /\ IsDigits(t[2])
          THEN PyInt((IF t[1] = "-" THEN -1 ELSE 1) * DigitLex[t[2]].v)
        ELSE PyExc("ValueError")

\* float(s) of a str of unsigned shape D, D., D.D or .D
UnsignedFloat(t) ==
    IF Len(t) = 1 /\ IsDigits(t[1]) THEN PyFloat(DigitLex[t[1]].v * 100)
    ELSE IF Len(t) = 2 /\ IsDigits(t[1]) /\ t[2] = "." THEN PyFloat(DigitLex[t[1]].v * 100)
    ELSE IF Len(t) = 2 /\ t[1] = "." /\ IsDigits(t[2]) THEN PyFloat(FracHundredths(t[2]))
    ELSE IF Len(t) = 3 /\ IsDigits(t[1]) /\ t[2] = "." /\ IsDigits(t[3])
      THEN PyFloat(DigitLex[t[1]].v * 100 + FracHundredths(t[3]))
    ELSE PyExc("ValueError")

\* float(s) of a str: the float (in hundredths), or ValueError
FloatOfStr(s) ==
    LET t == Strip(s)
    IN  IF t # <<>> /\ t[1] \in {"-", "+"}
          THEN LET u == UnsignedFloat(Tail(t))
               IN  IF IsExc(u) THEN u
                   ELSE PyFloat((IF t[1] = "-" THEN -1 ELSE 1) * u.c)
          ELSE UnsignedFloat(t)

IsNumber(v) == v.ty \in {"int", "float"}

\* float(v) of any value
PyFloatOf(v) ==
    CASE v.ty = "float" -> v
      [] v.ty = "int" -> PyFloat(v.v * 100)
      [] v.ty = "str" -> FloatOfStr(v.s)
      [] OTHER -> PyExc("TypeError")

\* a + b of two values, as `x += y` computes it
PyAdd(a, b) ==
    CASE a.ty = "int" /\ b.ty = "int" -> PyInt(a.v + b.v)
      [] a.ty = "int" /\ b.ty = "float" -> PyFloat(a.v * 100 + b.c)
      [] a.ty = "float" /\ b.ty = "int" -> PyFloat(a.c + b.v * 100)
      [] a.ty = "float" /\ b.ty = "float" -> PyFloat(a.c + b.c)
      [] OTHER -> PyExc("TypeError")

\* ----------------------------------------------------------------- regex

\* A pattern is a sequence of elements: a literal, or a captured repetition
\* of a lexeme class, greedy or lazy, of at least `min` lexemes.
Lit(s) == [k |-> "lit", s |-> s]

Plus(cls) == [k |-> "rep", cls |-> cls, min |-> 1, greedy |-> TRUE]

Star(cls) == [k |-> "rep", cls |-> cls, min |-> 0, greedy |-> TRUE]

InClass(tok, cls) ==
    CASE cls = "digit" -> IsDigits(tok)              \* \d
      [] cls = "num" -> IsDigits(tok) \/ tok = "."   \* [\d.]
      [] cls = "notparen" -> tok # "("               \* [^(]
      [] cls = "notpipe" -> tok # "|"                \* [^|]
      [] cls = "notcolon" -> tok # ":"               \* [^:]
      [] cls = "dot" -> tok # NL                     \* .
      [] OTHER -> FALSE

\* the length of the longest run of lexemes of the class from pos
RECURSIVE RunLen(_, _, _)
RunLen(s, pos, cls) ==
    IF pos <= Len(s) /\ InClass(s[pos], cls) THEN 1 + RunLen(s, pos + 1, cls) ELSE 0

\* re.match of elements k.. of the pattern at pos: <<>>, or <<[end, caps]>>
RECURSIVE MatchAt(_, _, _, _, _)
RECURSIVE TryRep(_, _, _, _, _, _, _, _)
MatchAt(re, k, s, pos, caps) ==
    IF k > Len(re) THEN <<[end |-> pos, caps |-> caps]>>
    ELSE IF re[k].k = "lit"
      THEN IF StartsWithAt(s, pos, re[k].s)
             THEN MatchAt(re, k + 1, s, pos + Len(re[k].s), caps)
             ELSE <<>>
    ELSE LET run == RunLen(s, pos, re[k].cls)
         IN  IF run < re[k].min THEN <<>>
             ELSE IF re[k].greedy
               THEN TryRep(re, k, s, pos, caps, run, re[k].min, -1)
               ELSE TryRep(re, k, s, pos, caps, re[k].min, run, 1)

TryRep(re, k, s, pos, caps, n, last, step) ==
    LET r == MatchAt(re, k + 1, s, pos + n, Append(caps, SubSeq(s, pos, pos + n - 1)))
    IN  IF r # <<>> THEN r
        ELSE IF n = last THEN <<>>
        ELSE TryRep(re, k, s, pos, caps, n + step, last, step)

\* re.search(re, s): the match at the leftmost position that has one
RECURSIVE SearchFrom(_, _, _)
SearchFrom(re, s, pos) ==
    IF pos > Len(s) + 1 THEN <<>>
    ELSE LET r == MatchAt(re, 1, s, pos, <<>>)
         IN  IF r # <<>> THEN r ELSE SearchFrom(re, s, pos + 1)

Search(re, s) == SearchFrom(re, s, 1)

\* ------------------------------------------------------------------ json

QUOTE == "\""

\* the index of the first lexeme at or after i that is not whitespace
RECURSIVE SkipWs(_, _)
SkipWs(s, i) == IF i <= Len(s) /\ s[i] \in Whitespace THEN SkipWs(s, i + 1) ELSE i

JsonFail == [ok |-> FALSE]

JsonOk(v, next) == [ok |-> TRUE, v |-> v, next |-> next]

\* a JSON string at s[i] = QUOTE: the lexemes up to the next quote
JsonString(s, i) ==
    LET j == Find(s, <<QUOTE>>, i + 1)
    IN  IF j = 0 \/ Contains(SubSeq(s, i + 1, j - 1), <<NL>>) \/ Contains(SubSeq(s, i + 1, j - 1), <<"\\">>)
          THEN JsonFail
          ELSE JsonOk(PyStr(SubSeq(s, i + 1, j - 1)), j + 1)

\* a JSON number at s[i]: -?D or -?D.D
JsonNumber(s, i) ==
    LET neg == s[i] = "-"
        j == IF neg THEN i + 1 ELSE i
        sign == IF neg THEN -1 ELSE 1
    IN  IF j > Len(s) \/ ~IsDigits(s[j]) THEN JsonFail
        ELSE IF j + 2 <= Len(s) /\ s[j + 1] = "." /\ IsDigits(s[j + 2])
          THEN JsonOk(PyFloat(sign * (DigitLex[s[j]].v * 100 + FracHundredths(s[j + 2]))), j + 3)
        ELSE JsonOk(PyInt(sign * DigitLex[s[j]].v), j + 1)

\* the dict key of a JSON member name: the names the code looks up are one
\* lexeme each; any other name is a key the code never reads
JsonKey(name) == IF Len(name) = 1 THEN name[1] ELSE "<other>"

RECURSIVE JsonValue(_, _)
RECURSIVE JsonMembers(_, _, _)
RECURSIVE JsonElements(_, _, _)
\* the JSON value that starts at or after s[i0]
JsonValue(s, i0) ==
    LET i == SkipWs(s, i0)
    IN  IF i > Len(s) THEN JsonFail
        ELSE IF s[i] = "{"
          THEN IF SkipWs(s, i + 1) <= Len(s) /\ s[SkipWs(s, i + 1)] = "}"
                 THEN JsonOk(PyDict(EmptyMap), SkipWs(s, i + 1) + 1)
                 ELSE JsonMembers(s, i + 1, EmptyMap)
        ELSE IF s[i] = "["
          THEN IF SkipWs(s, i + 1) <= Len(s) /\ s[SkipWs(s, i + 1)] = "]"
                 THEN JsonOk(PyList(<<>>), SkipWs(s, i + 1) + 1)
                 ELSE JsonElements(s, i + 1, <<>>)
        ELSE IF s[i] = QUOTE THEN JsonString(s, i)
        ELSE IF s[i] = "-" \/ IsDigits(s[i]) THEN JsonNumber(s, i)
        ELSE IF s[i] = "null" THEN JsonOk(PyNone, i + 1)
        ELSE JsonFail

\* the members of an object after "{" or ",": "name": value, ... }
JsonMembers(s, i0, d) ==
    LET i == SkipWs(s, i0)
    IN  IF i > Len(s) \/ s[i] # QUOTE THEN JsonFail
        ELSE LET name == JsonString(s, i)
             IN  IF ~name.ok THEN JsonFail
                 ELSE LET c == SkipWs(s, name.next)
                      IN  IF c > Len(s) \/ s[c] # ":" THEN JsonFail
                          ELSE LET val == JsonValue(s, c + 1)
                               IN  IF ~val.ok THEN JsonFail
                                   ELSE LET e == SkipWs(s, val.next)
                                            d2 == Put(d, JsonKey(name.v.s), val.v)
                                        IN  IF e > Len(s) THEN JsonFail
                                            ELSE IF s[e] = "}" THEN JsonOk(PyDict(d2), e + 1)
                                            ELSE IF s[e] = "," THEN JsonMembers(s, e + 1, d2)
                                            ELSE JsonFail

\* the elements of an array after "[" or ",": value, ... ]
JsonElements(s, i0, l) ==
    LET val == JsonValue(s, i0)
    IN  IF ~val.ok THEN JsonFail
        ELSE LET e == SkipWs(s, val.next)
                 l2 == Append(l, val.v)
             IN  IF e > Len(s) THEN JsonFail
                 ELSE IF s[e] = "]" THEN JsonOk(PyList(l2), e + 1)
                 ELSE IF s[e] = "," THEN JsonElements(s, e + 1, l2)
                 ELSE JsonFail

\* json.loads(v): the decoded value, JSONDecodeError for a str that is not
\* one JSON document, TypeError for a value that is not a str
JsonLoads(v) ==
    IF v.ty # "str" THEN PyExc("TypeError")
    ELSE LET r == JsonValue(v.s, 1)
         IN  IF r.ok /\ SkipWs(v.s, r.next) > Len(v.s) THEN r.v
             ELSE PyExc("JSONDecodeError")

\* ------------------------------------------- Tier B: cart from transcript

\* v.get(k, default) of a dict; AttributeError for a value with no .get
DictGet(v, k, default) ==
    IF v.ty # "dict" THEN PyExc("AttributeError")
    ELSE IF k \in DOMAIN v.d THEN v.d[k] ELSE default

EUR == PyStr(<<"EUR">>)

EuroSuffix == <<SP, "€">>

CartLabel ==
    <<"-", SP, "Tool", ":", SP, "get_cart_content", SP, "|", SP, "Result", ":", SP>>

\* the end of the lazy group of cart_pattern: the first position from i that
\* is followed by "\n- Tool:" or is the end of the text ($ also matches
\* before a final newline)
RECURSIVE CaptureEnd(_, _)
CaptureEnd(s, i) ==
    IF \/ i > Len(s)
       \/ StartsWithAt(s, i, <<NL>> \o DashTool)
       \/ (i = Len(s) /\ s[i] = NL)
      THEN i
      ELSE CaptureEnd(s, i + 1)

\* re.search(cart_pattern, agent_response, re.DOTALL) (lines 693-694):
\* <<>> when there is no match, else <<group(1)>>
CartMatch(agent_response) ==
    LET i == Find(agent_response, CartLabel, 1)
        b == i + Len(CartLabel)
    IN  IF i = 0 THEN <<>>
        ELSE <<SubSeq(agent_response, b, CaptureEnd(agent_response, b) - 1)>>

\* the cart_data the formats fill (lines 716-721); exc is the exception
\* raised so far, "none" when there is none
EmptyCart ==
    [items |-> <<>>, total_items |-> PyInt(0), total_price |-> PyInt(0), exc |-> "none"]

Raise(cd, v) == [cd EXCEPT !.exc = v.e]

\* cart_data["items"].append of a line item of the text formats
TextItem(name, quantity, price) ==
    PyDict([name |-> PyStr(name), quantity |-> quantity, price |-> price, currency |-> EUR])

\* one iteration of `for item in cart_json` (lines 737-750)
JsonItem(cd, item) ==
    LET p0 == DictGet(item, "price", PyStr(<<"0", SP, "€">>))
        price_str == Replace(Replace(p0.s, EuroSuffix, <<>>), <<"€">>, <<>>)
        price == FloatOfStr(price_str)
        quantity == DictGet(item, "quantity", PyInt(1))
        ti == PyAdd(cd.total_items, quantity)
        tp == PyAdd(cd.total_price, price)
    IN  IF cd.exc # "none" THEN cd
        ELSE IF IsExc(p0) THEN Raise(cd, p0)
        ELSE IF p0.ty # "str" THEN Raise(cd, PyExc("AttributeError"))
        ELSE IF IsExc(price) THEN Raise(cd, price)
        ELSE IF IsExc(ti) THEN Raise(cd, ti)
        ELSE IF IsExc(tp) THEN Raise(cd, tp)
        ELSE [cd EXCEPT
                !.items = Append(cd.items,
                    PyDict([name |-> DictGet(item, "name", PyStr(<<>>)),
                            quantity |-> quantity, price |-> price, currency |-> EUR,
                            product_id |-> DictGet(item, "product_id", PyNone)])),
                !.total_items = ti,
                !.total_price = tp]

RECURSIVE JsonItems(_, _, _)
JsonItems(cd, l, i) ==
    IF i > Len(l) THEN cd ELSE JsonItems(JsonItem(cd, l[i]), l, i + 1)

\* Format 0: JSON array (lines 729-756)
Applies0(cart_text) ==
    StartsWith(Strip(cart_text), <<"[">>) /\ EndsWith(Strip(cart_text), <<"]">>)

Format0(cd, cart_text) ==
    LET cart_json == JsonLoads(PyStr(cart_text))
    IN  IF IsExc(cart_json) THEN cd     \* except json.JSONDecodeError: fall through
        ELSE JsonItems(cd, cart_json.l, 1)

RE_TotalPrice == <<Lit(<<"Total", SP, "price", ":", SP>>), Plus("num"), Lit(EuroSuffix)>>

RE_TotalItems == <<Lit(<<"Total", SP, "items", ":", SP>>), Plus("digit")>>

RE_ItemsTotal == <<Plus("digit"), Lit(<<SP, "items", SP, "total">>)>>

RE_Total == <<Lit(<<"Total", ":", SP>>), Plus("num"), Lit(EuroSuffix)>>

\* cart_data["total_price"] = float(m.group(1)) when re.search(re, text) matches
SetTotalPrice(cd, re, text) ==
    LET m == Search(re, text)
        f == FloatOfStr(m[1].caps[1])
    IN  IF cd.exc # "none" \/ m = <<>> THEN cd
        ELSE IF IsExc(f) THEN Raise(cd, f)
        ELSE [cd EXCEPT !.total_price = f]

\* cart_data["total_items"] = int(m.group(1)) when re.search(re, text) matches
SetTotalItems(cd, re, text) ==
    LET m == Search(re, text)
        n == IntOfStr(m[1].caps[1])
    IN  IF cd.exc # "none" \/ m = <<>> THEN cd
        ELSE IF IsExc(n) THEN Raise(cd, n)
        ELSE [cd EXCEPT !.total_items = n]

\* append the item {name: group(1).strip(), quantity: 1, price: float(group(2))}
\* of a match m, adding to the totals what the format adds
AddMatched(cd, m, addItems, addPrice) ==
    LET price == FloatOfStr(m[1].caps[2])
        tp == IF addPrice THEN PyAdd(cd.total_price, price) ELSE cd.total_price
        ti == IF addItems THEN PyAdd(cd.total_items, PyInt(1)) ELSE cd.total_items
    IN  IF cd.exc # "none" \/ m = <<>> THEN cd
        ELSE IF IsExc(price) THEN Raise(cd, price)
        ELSE IF IsExc(ti) THEN Raise(cd, ti)
        ELSE IF IsExc(tp) THEN Raise(cd, tp)
        ELSE [cd EXCEPT
                !.items = Append(cd.items, TextItem(Strip(m[1].caps[1]), PyInt(1), price)),
                !.total_items = ti,
                !.total_price = tp]

\* Format 1: "Total items: X | Total price: Y € | Items:" (lines 758-786)
Applies1(cart_text) ==
    /\ Contains(cart_text, <<"Total", SP, "items", ":">>)
    /\ Contains(cart_text, <<"Total", SP, "price", ":">>)
    /\ Contains(cart_text, <<"Items", ":">>)

RE_Item1 ==
    <<Lit(<<"-", SP>>), Plus("notparen"),
      Lit(<<SP, "(", "1", "x", ")", SP, "|", SP, "Price", ":", SP>>), Plus("num"),
      Lit(EuroSuffix)>>

Line1(cd, raw) ==
    LET line == Strip(raw)
    IN  IF /\ StartsWith(line, <<"-", SP>>)
           /\ Contains(line, <<"(", "1", "x", ")">>)
           /\ Contains(line, <<"|", SP, "Price", ":">>)
          THEN AddMatched(cd, Search(RE_Item1, line), FALSE, FALSE)
          ELSE cd

RECURSIVE Lines1(_, _, _)
Lines1(cd, lines, i) ==
    IF i > Len(lines) THEN cd ELSE Lines1(Line1(cd, lines[i]), lines, i + 1)

Format1(cd, cart_text, lines) ==
    Lines1(SetTotalItems(SetTotalPrice(cd, RE_TotalPrice, cart_text), RE_TotalItems, cart_text),
           lines, 1)

\* Format 2: "X items total | Total price: Y € | Items: 1x A (P €), ..."
\* (lines 788-819)
Applies2(cart_text) ==
    /\ Contains(cart_text, <<"items", SP, "total">>)
    /\ Contains(cart_text, <<"Total", SP, "price", ":">>)
    /\ Contains(cart_text, <<"Items", ":">>)

RE_Items == <<Lit(<<"Items", ":", SP>>), Star("dot")>>

RE_Item2 ==
    <<Lit(<<"1", "x", SP>>), Plus("notparen"), Lit(<<SP, "(">>), Plus("num"),
      Lit(<<SP, "€", ")">>)>>

RECURSIVE Parts2(_, _, _)
Parts2(cd, parts, i) ==
    IF i > Len(parts) THEN cd
    ELSE Parts2(AddMatched(cd, Search(RE_Item2, Strip(parts[i])), FALSE, FALSE), parts, i + 1)

Format2(cd, cart_text) ==
    LET cd2 == SetTotalItems(SetTotalPrice(cd, RE_TotalPrice, cart_text), RE_ItemsTotal, cart_text)
        items_match == Search(RE_Items, cart_text)
    IN  IF items_match = <<>> THEN cd2
        ELSE Parts2(cd2, Split(items_match[1].caps[1], <<",", SP>>), 1)

\* Format 3: "X items total (A: P €, B: Q €) | Total: T €" (lines 821-848)
Applies3(cart_text) ==
    Contains(cart_text, <<"items", SP, "total">>) /\ Contains(cart_text, <<"Total", ":">>)

RE_Paren3 ==
    <<Lit(<<"items", SP, "total", SP, "(">>),
      [k |-> "rep", cls |-> "dot", min |-> 0, greedy |-> FALSE], Lit(<<")">>)>>

RE_Item3 == <<Plus("notcolon"), Lit(<<":", SP>>), Plus("num"), Lit(EuroSuffix)>>

RECURSIVE Parts3(_, _, _)
Parts3(cd, parts, i) ==
    IF i > Len(parts) THEN cd
    ELSE Parts3(AddMatched(cd, Search(RE_Item3, Strip(parts[i])), TRUE, FALSE), parts, i + 1)

Format3(cd, cart_text) ==
    LET cd2 == SetTotalPrice(cd, RE_Total, cart_text)
        items_match == Search(RE_Paren3, cart_text)
    IN  IF items_match = <<>> THEN cd2
        ELSE Parts3(cd2, Split(items_match[1].caps[1], <<",", SP>>), 1)

\* Format 4: "X item(s) in cart: A (1x, P €)" (lines 850-884)
Applies4(cart_text) ==
    Contains(cart_text, <<"item", "(", "s", ")", SP, "in", SP, "cart", ":">>)

RE_InCart ==
    <<Plus("digit"), Lit(<<SP, "item", "(", "s", ")", SP, "in", SP, "cart", ":", SP>>),
      Plus("dot")>>

RE_Item4 ==
    <<Plus("notparen"), Lit(<<SP, "(", "1", "x", ",", SP>>), Plus("num"),
      Lit(<<SP, "€", ")">>)>>

Format4(cd, cart_text) ==
    LET cart_match == Search(RE_InCart, cart_text)
        total_items == IntOfStr(cart_match[1].caps[1])
    IN  IF cart_match = <<>> THEN cd
        ELSE IF IsExc(total_items) THEN Raise(cd, total_items)
        ELSE AddMatched([cd EXCEPT !.total_items = total_items],
                        Search(RE_Item4, Strip(cart_match[1].caps[2])), FALSE, TRUE)

\* Format 5: one product per line (lines 886-928)
RE_Item5 ==
    <<Lit(<<"-", SP>>), Plus("notparen"), Lit(<<SP, "(">>), Plus("num"),
      Lit(<<SP, "€", ")">>)>>

RE_Product5 ==
    <<Lit(<<"Product", ":", SP>>), Plus("notpipe"),
      Lit(<<SP, "|", SP, "Quantity", ":", SP>>), Plus("digit"),
      Lit(<<SP, "|", SP, "Price", ":", SP>>), Plus("num"), Lit(EuroSuffix)>>

\* the `Product: A | Quantity: N | Price: P €` branch (lines 908-922)
AddProduct5(cd, m) ==
    LET quantity == IntOfStr(m[1].caps[2])
        price == FloatOfStr(m[1].caps[3])
        ti == PyAdd(cd.total_items, quantity)
        tp == PyAdd(cd.total_price, price)
    IN  IF m = <<>> THEN cd
        ELSE IF IsExc(quantity) THEN Raise(cd, quantity)
        ELSE IF IsExc(price) THEN Raise(cd, price)
        ELSE [cd EXCEPT
                !.items = Append(cd.items, TextItem(Strip(m[1].caps[1]), quantity, price)),
                !.total_items = ti,
                !.total_price = tp]

\* one line of Format 5 without the 'Total:' branch
Line5NoTotal(cd, raw) ==
    LET line == Strip(raw)
    IN  IF cd.exc # "none" THEN cd
        ELSE IF /\ StartsWith(line, <<"-", SP>>)
                /\ Contains(line, <<"(">>)
                /\ Contains(line, <<"€">>)
          THEN AddMatched(cd, Search(RE_Item5, line), TRUE, TRUE)
        ELSE IF /\ Contains(line, <<"Product", ":">>)
                /\ Contains(line, <<"Quantity", ":">>)
                /\ Contains(line, <<"Price", ":">>)
          THEN AddProduct5(cd, Search(RE_Product5, line))
        ELSE cd

Line5(cd, raw) ==
    LET line == Strip(raw)
    IN  IF cd.exc # "none" THEN cd
        ELSE IF /\ StartsWith(line, <<"-", SP>>)
                /\ Contains(line, <<"(">>)
                /\ Contains(line, <<"€">>)
          THEN AddMatched(cd, Search(RE_Item5, line), TRUE, TRUE)
        ELSE IF /\ Contains(line, <<"Product", ":">>)
                /\ Contains(line, <<"Quantity", ":">>)
                /\ Contains(line, <<"Price", ":">>)
          THEN AddProduct5(cd, Search(RE_Product5, line))
        ELSE IF StartsWith(line, <<"Total", ":">>) /\ Contains(line, <<"€">>)
          THEN SetTotalPrice(cd, RE_Total, line)
        ELSE cd

RECURSIVE Lines5(_, _, _)
Lines5(cd, lines, i) ==
    IF i > Len(lines) THEN cd ELSE Lines5(Line5(cd, lines[i]), lines, i + 1)

Format5(cd, lines) == Lines5(cd, lines, 1)

\* the if / elif chain of formats 1 to 5 (lines 758-928): exactly one runs
TextFormats(cd, cart_text, lines) ==
    IF cd.exc # "none" THEN cd
    ELSE IF Applies1(cart_text) THEN Format1(cd, cart_text, lines)
    ELSE IF Applies2(cart_text) THEN Format2(cd, cart_text)
    ELSE IF Applies3(cart_text) THEN Format3(cd, cart_text)
    ELSE IF Applies4(cart_text) THEN Format4(cd, cart_text)
    ELSE Format5(cd, lines)

\* the dict `return cart_data` returns
Snapshot(cd) ==
    PyDict([items |-> PyList(cd.items), total_items |-> cd.total_items,
            total_price |-> cd.total_price, currency |-> EUR])

\* the cart_data after all formats ran on the captured text (lines 716-928)
ParseCartText(cart_text) ==
    LET cd0 == IF Applies0(cart_text) THEN Format0(EmptyCart, cart_text) ELSE EmptyCart
    IN  TextFormats(cd0, cart_text, Split(cart_text, <<NL>>))

\* _extract_cart_from_agent_response without its text fallback: None when no
\* item was found
extract_cart_or_none(agent_response) ==
    LET m == CartMatch(agent_response)
    IN  IF m = <<>> THEN PyNone
        ELSE LET cd == ParseCartText(Strip(m[1]))
             IN  IF cd.exc # "none" THEN PyNone
                 ELSE IF cd.items # <<>> THEN Snapshot(cd)
                 ELSE PyNone

\* _extract_cart_from_agent_response (lines 683-943): a snapshot dict, the
\* captured text, or None
extract_cart_from_agent_response(agent_response) ==
    LET m == CartMatch(agent_response)
    IN  IF m = <<>> THEN PyNone
        ELSE LET cart_text == Strip(m[1])
                 cd == ParseCartText(cart_text)
             IN  IF cd.exc # "none" THEN PyNone       \* except Exception: return None
                 ELSE IF cd.items # <<>> THEN Snapshot(cd)
                 ELSE PyStr(cart_text)

\* -------------------------------------- Tier A: cart from tool-call records

\* str(v): a str is itself; the text of any other value is kept as one
\* opaque lexeme with the value it prints
StrOf(v) == IF v.ty = "str" THEN v ELSE [ty |-> "str", s |-> <<"<repr>">>, of |-> v]

PyBool(b) == [ty |-> "bool", b |-> b]

\* k in v, for a key k that is one lexeme: a bool, or TypeError
PyIn(k, v) ==
    CASE v.ty = "dict" -> PyBool(k \in DOMAIN v.d)
      [] v.ty = "str" -> PyBool(Contains(v.s, <<k>>))
      [] v.ty = "list" -> PyBool(\E i \in DOMAIN v.l : v.l[i] = PyStr(<<k>>))
      [] OTHER -> PyExc("TypeError")

\* v[k] for a str key k
PyItem(v, k) ==
    IF v.ty = "dict" THEN (IF k \in DOMAIN v.d THEN v.d[k] ELSE PyExc("KeyError"))
    ELSE PyExc("TypeError")

\* len(v); the model's len of a str counts lexemes
PyLen(v) ==
    CASE v.ty = "list" -> PyInt(Len(v.l))
      [] v.ty = "dict" -> PyInt(Cardinality(DOMAIN v.d))
      [] v.ty = "str" -> PyInt(Len(v.s))
      [] OTHER -> PyExc("TypeError")

\* the values `for x in v` iterates over (a str by lexeme, a dict by key)
PyIter(v) ==
    CASE v.ty = "list" -> v.l
      [] v.ty = "str" -> [i \in DOMAIN v.s |-> PyStr(<<v.s[i]>>)]
      [] v.ty = "dict" -> IF DOMAIN v.d = {} THEN <<>> ELSE <<PyStr(<<"<key>">>)>>
      [] OTHER -> <<>>

Iterable(v) == v.ty \in {"list", "str", "dict"}

\* float(x) if isinstance(x, (int, float))
\* else float(str(x).replace('€', '').replace(',', '.').strip())
\* (lines 590 and 600): the Price Normalizer as the code has it
NormalizePrice(x) ==
    IF IsNumber(x) THEN PyFloatOf(x)
    ELSE IF x.ty = "str" THEN FloatOfStr(Replace(Replace(x.s, <<"€">>, <<>>), <<",">>, <<".">>))
    ELSE PyExc("ValueError")

\* the dict appended for one product with the price left as the source has it
ConvertProductRaw(product, currency) ==
    IF product.ty # "dict" THEN PyExc("AttributeError")
    ELSE PyDict([name |-> DictGet(product, "name", PyStr(<<>>)),
                 quantity |-> DictGet(product, "quantity", PyInt(1)),
                 price |-> DictGet(product, "price", PyStr(<<"0">>)),
                 currency |-> currency,
                 product_id |-> DictGet(product, "product_id",
                                        DictGet(product, "cart_item_id", PyNone))])

\* the dict appended for one product (lines 597-603), or the exception
ConvertProduct(product, currency) ==
    LET price == NormalizePrice(DictGet(product, "price", PyStr(<<"0">>)))
    IN  IF product.ty # "dict" THEN PyExc("AttributeError")
        ELSE IF IsExc(price) THEN price
        ELSE PyDict([name |-> DictGet(product, "name", PyStr(<<>>)),
                     quantity |-> DictGet(product, "quantity", PyInt(1)),
                     price |-> price,
                     currency |-> currency,
                     product_id |-> DictGet(product, "product_id",
                                            DictGet(product, "cart_item_id", PyNone))])

\* `for product in products: cart_data["items"].append(...)`: the list of
\* items, or the first exception
RECURSIVE ConvertProducts(_, _, _, _)
ConvertProducts(products, currency, i, acc) ==
    IF i > Len(products) THEN PyList(acc)
    ELSE LET item == ConvertProduct(products[i], currency)
         IN  IF IsExc(item) THEN item
             ELSE ConvertProducts(products, currency, i + 1, Append(acc, item))

\* the conversion of a decoded JSON object to the standard format
\* (lines 577-606, and again 620-649): the cart_data dict, or the exception
ConvertCart(parsed_result) ==
    LET cart_info == IF "cart" \in DOMAIN parsed_result.d
                       THEN parsed_result.d["cart"] ELSE parsed_result
        items_len == PyLen(DictGet(cart_info, "items", PyList(<<>>)))
        total_price == NormalizePrice(
            DictGet(cart_info, "total_price", DictGet(cart_info, "total", PyStr(<<"0">>))))
        currency == DictGet(cart_info, "currency", EUR)
        products == DictGet(cart_info, "products", DictGet(cart_info, "items", PyList(<<>>)))
        items == ConvertProducts(PyIter(products), currency, 1, <<>>)
    IN  IF cart_info.ty # "dict" THEN PyExc("AttributeError")
        ELSE IF IsExc(items_len) THEN items_len
        ELSE IF IsExc(total_price) THEN total_price
        ELSE IF ~Iterable(products) THEN PyExc("TypeError")
        ELSE IF IsExc(items) THEN items
        ELSE PyDict([items |-> items,
                     total_items |-> DictGet(cart_info, "total_items", items_len),
                     total_price |-> total_price,
                     currency |-> currency])

NotParsed ==
    PyStr(<<"Cart", SP, "content", SP, "retrieved", SP, "but", SP, "not", SP, "parsed">>)

NoCartItems ==
    PyStr(<<"No", SP, "cart", SP, "items", SP, "found", SP, "in", SP, "tool", SP, "calls">>)

\* the scan's variables before the loop (lines 539-542); ret is <<>> until a
\* `return` inside the loop sets it, exc is the exception raised so far
ScanInit ==
    [cart_items |-> <<>>, total_cost |-> PyNone, cart_content_result |-> PyNone,
     ret |-> <<>>, exc |-> "none"]

\* try: json.loads(json_string) ... except json.JSONDecodeError, for the
\* record's result_data (lines 571-610, and again 614-653)
DecodeCart(st, json_string, result_data) ==
    LET parsed_result == JsonLoads(json_string)
        cart_data == ConvertCart(parsed_result)
    IN  IF IsExc(parsed_result)
          THEN IF parsed_result.e = "JSONDecodeError"
                 THEN [st EXCEPT !.cart_content_result = StrOf(result_data)]
                 ELSE [st EXCEPT !.exc = parsed_result.e]
        ELSE IF parsed_result.ty # "dict" THEN st
        ELSE IF IsExc(cart_data) THEN [st EXCEPT !.exc = cart_data.e]
        ELSE [st EXCEPT !.ret = <<cart_data>>]

\* the add_to_cart branch (lines 545-556)
ScanAdd(st, call) ==
    LET has_cost == PyIn("total_cost", call.result)
        cost == PyItem(call.result, "total_cost")
        has_products == PyIn("products", call.arguments)
        products == PyItem(call.arguments, "products")
        has_quantity == PyIn("quantity", call.arguments)
        quantity == PyItem(call.arguments, "quantity")
        st1 == IF has_cost.b THEN [st EXCEPT !.total_cost = cost] ELSE st
        st2 == IF has_products.b
                 THEN [st1 EXCEPT !.cart_items = Append(st1.cart_items,
                          <<"Products", SP, "added", ":", SP>> \o StrOf(products).s)]
                 ELSE st1
        st3 == IF has_quantity.b
                 THEN [st2 EXCEPT !.cart_items = Append(st2.cart_items,
                          <<"Quantity", ":", SP>> \o StrOf(quantity).s)]
                 ELSE st2
    IN  IF IsExc(has_cost) THEN [st EXCEPT !.exc = has_cost.e]
        ELSE IF has_cost.b /\ IsExc(cost) THEN [st EXCEPT !.exc = cost.e]
        ELSE IF IsExc(has_products) THEN [st EXCEPT !.exc = has_products.e]
        ELSE IF has_products.b /\ IsExc(products) THEN [st EXCEPT !.exc = products.e]
        ELSE IF IsExc(has_quantity) THEN [st EXCEPT !.exc = has_quantity.e]
        ELSE IF has_quantity.b /\ IsExc(quantity) THEN [st EXCEPT !.exc = quantity.e]
        ELSE st3

\* the get_cart_content branch (lines 558-659)
ScanCart(st, call) ==
    LET result_data == call.result
    IN  IF ~Truthy(result_data)
          THEN [st EXCEPT !.cart_content_result = NotParsed]
        ELSE IF result_data.ty = "dict" /\ "cart_summary" \in DOMAIN result_data.d
          THEN DecodeCart(st, result_data.d["cart_summary"], result_data)
        ELSE IF result_data.ty = "str"
          THEN DecodeCart(st, result_data, result_data)
        ELSE [st EXCEPT !.cart_content_result = StrOf(result_data)]

\* one iteration of `for call in tool_calls_data` (lines 544-659)
ScanCall(st, call) ==
    IF call.tool_name = AddToCart THEN ScanAdd(st, call)
    ELSE IF call.tool_name = GetCartContent THEN ScanCart(st, call)
    ELSE st

RECURSIVE ScanCalls(_, _, _)
ScanCalls(st, tool_calls_data, i) ==
    IF i > Len(tool_calls_data) \/ st.ret # <<>> \/ st.exc # "none" THEN st
    ELSE ScanCalls(ScanCall(st, tool_calls_data[i]), tool_calls_data, i + 1)

\* what follows the loop (lines 661-677); cart_data is still None there,
\* every assignment to it being followed by `return cart_data`
AfterScan(st) ==
    IF Truthy(st.cart_content_result) /\ st.cart_content_result # NotParsed
      THEN st.cart_content_result
    ELSE IF st.cart_items # <<>>
      THEN PyStr(<<"Cart", SP, "Summary", ":", NL>> \o Join(st.cart_items, <<NL>>)
                 \o (IF Truthy(st.total_cost)
                       THEN <<NL, "Total", SP, "Cost", ":", SP>> \o StrOf(st.total_cost).s
                       ELSE <<>>))
    ELSE NoCartItems

\* the dict the `except Exception` handlers return: {"error": str(e)}, the
\* message kept as the exception's type
ErrorRecord(e) == PyDict([error |-> PyStr(<<e>>)])

\* _extract_cart_from_tool_calls without its `except Exception` clause
extract_cart_unguarded(tool_calls_data) ==
    LET st == ScanCalls(ScanInit, tool_calls_data, 1)
    IN  IF st.exc # "none" THEN PyExc(st.exc)
        ELSE IF st.ret # <<>> THEN st.ret[1]
        ELSE AfterScan(st)

\* _extract_cart_from_tool_calls (lines 536-681)
extract_cart_from_tool_calls(tool_calls_data) ==
    LET st == ScanCalls(ScanInit, tool_calls_data, 1)
    IN  IF st.exc # "none" THEN ErrorRecord(st.exc)
        ELSE IF st.ret # <<>> THEN st.ret[1]
        ELSE AfterScan(st)

\* ------------------------------------------ tool-call record extraction

\* The agent result object.  An attribute the code probes with
\* `hasattr(x, a) and x.a` is a value, PyNone when the object lacks it:
\*   cycles      PyNone, or PyList of cycles [id, tool_calls]
\*   tool_calls  PyNone, or PyList of call objects [name, arguments, result, status]
\*   state       PyNone, or [ty |-> "obj", tool_calls |-> ...]
\*   text        str(result), the transcript
\*   metrics     PyNone, or the execution statistics

\* the record built from a call object by _extract_actual_tool_calls
\* (lines 279-284, 292-297, 306-311)
ActualRecord(call) ==
    [tool_name |-> call.name, arguments |-> call.arguments, result |-> call.result,
     status |-> IF call.result # PyNone THEN "success" ELSE "unknown"]

\* the record built from a call object by the probes of _extract_tool_calls
\* (lines 354-359, 371-376)
ProbedRecord(call) ==
    [tool_name |-> call.name, arguments |-> call.arguments, result |-> call.result,
     status |-> call.status]

\* the same with the cycle's id (lines 385-391)
CycleRecord(call, cycle) ==
    [tool_name |-> call.name, arguments |-> call.arguments, result |-> call.result,
     status |-> call.status, cycle_id |-> cycle.id]

\* the outcome of a loop that appends records: the records, or an exception
Appended(recs) == [exc |-> FALSE, recs |-> recs]
NotIterable == [exc |-> TRUE, recs |-> <<>>]

\* `for call in calls: tool_calls.append(...)`, calls a truthy value
ActualRecords(calls) ==
    IF calls.ty # "list" THEN NotIterable
    ELSE Appended([i \in DOMAIN calls.l |-> ActualRecord(calls.l[i])])

ProbedRecords(calls) ==
    IF calls.ty # "list" THEN NotIterable
    ELSE Appended([i \in DOMAIN calls.l |-> ProbedRecord(calls.l[i])])

\* the loop over result.cycles (lines 276-286 and 382-391); with_id tells
\* the two record shapes apart
RECURSIVE CycleCalls(_, _, _, _)
CycleCalls(cycles, i, acc, with_id) ==
    IF i > Len(cycles) THEN Appended(acc)
    ELSE LET cycle == cycles[i]
         IN  IF ~Truthy(cycle.tool_calls)
               THEN CycleCalls(cycles, i + 1, acc, with_id)
             ELSE IF cycle.tool_calls.ty # "list" THEN NotIterable
             ELSE CycleCalls(cycles, i + 1,
                     acc \o [j \in DOMAIN cycle.tool_calls.l |->
                               IF with_id THEN CycleRecord(cycle.tool_calls.l[j], cycle)
                               ELSE ActualRecord(cycle.tool_calls.l[j])],
                     with_id)

\* _extract_actual_tool_calls (lines 268-324): the records of the first
\* truthy container among cycles, tool_calls and state; [] on an exception
extract_actual_tool_calls(result) ==
    LET got ==
          IF Truthy(result.cycles)
            THEN IF result.cycles.ty # "list" THEN NotIterable
                 ELSE CycleCalls(result.cycles.l, 1, <<>>, FALSE)
          ELSE IF Truthy(result.tool_calls) THEN ActualRecords(result.tool_calls)
          ELSE IF result.state # PyNone
            THEN IF Truthy(result.state.tool_calls)
                   THEN ActualRecords(result.state.tool_calls) ELSE Appended(<<>>)
          ELSE Appended(<<>>)
    IN  IF got.exc THEN <<>> ELSE got.recs

\* the probes after both strategies came back empty (lines 345-399): the
\* state's calls, then the direct calls, then the cycles' calls, appended to
\* one list
ProbeAll(result) ==
    LET from_state ==
          IF result.state # PyNone /\ Truthy(result.state.tool_calls)
            THEN ProbedRecords(result.state.tool_calls) ELSE Appended(<<>>)
        from_direct ==
          IF Truthy(result.tool_calls) THEN ProbedRecords(result.tool_calls)
          ELSE Appended(<<>>)
        from_cycles ==
          IF Truthy(result.cycles)
            THEN IF result.cycles.ty # "list" THEN NotIterable
                 ELSE CycleCalls(result.cycles.l, 1, <<>>, TRUE)
            ELSE Appended(<<>>)
    IN  IF from_state.exc \/ from_direct.exc \/ from_cycles.exc
          THEN NotIterable
          ELSE Appended(from_state.recs \o from_direct.recs \o from_cycles.recs)

\* _extract_tool_calls (lines 326-403)
extract_tool_calls(result) ==
    LET actual_tool_calls == extract_actual_tool_calls(result)
        tool_calls_from_response == parse_tool_calls_from_response(result.text)
        probed == ProbeAll(result)
    IN  IF actual_tool_calls # <<>> THEN actual_tool_calls
        ELSE IF tool_calls_from_response # <<>> THEN tool_calls_from_response
        ELSE IF probed.exc THEN <<>>       \* except Exception: return []
        ELSE probed.recs

\* ------------------------------------------------- execution statistics

RECURSIVE GCD(_, _)
GCD(a, b) == IF b = 0 THEN a ELSE GCD(b, a % b)

\* a / b of a number by a positive int: the exact quotient n/d in lowest
\* terms, counted in the unit of a (hundredths for a float)
PyDiv(a, b) ==
    IF a.ty \notin {"int", "float"} \/ b.ty # "int" THEN PyExc("TypeError")
    ELSE LET n == IF a.ty = "int" THEN a.v ELSE a.c
             g == GCD(n, b.v)
         IN  [ty |-> "quot", n |-> n \div g, d |-> b.v \div g, unit |-> a.ty]

\* sum(xs)
RECURSIVE SumFrom(_, _, _)
SumFrom(l, i, acc) ==
    IF i > Len(l) \/ IsExc(acc) THEN acc ELSE SumFrom(l, i + 1, PyAdd(acc, l[i]))

PySum(xs) == IF xs.ty # "list" THEN PyExc("TypeError") ELSE SumFrom(xs.l, 1, PyInt(0))

\* one entry of tool_metrics with both divisions unguarded
ToolMetricUnguarded(tm) ==
  PyDict(
    [call_count |-> tm.call_count,
     success_count |-> tm.success_count,
     error_count |-> tm.error_count,
     success_rate |-> IF tm.call_count.v = 0 THEN PyExc("ZeroDivisionError")
                        ELSE PyDiv(tm.success_count, tm.call_count),
     total_time |-> tm.total_time,
     average_time |-> IF tm.call_count.v = 0 THEN PyExc("ZeroDivisionError")
                        ELSE PyDiv(tm.total_time, tm.call_count)])

\* one entry of tool_metrics (lines 253-260)
ToolMetric(tm) ==
  PyDict(
    [call_count |-> tm.call_count,
     success_count |-> tm.success_count,
     error_count |-> tm.error_count,
     success_rate |-> IF tm.call_count.v > 0
                        THEN PyDiv(tm.success_count, tm.call_count) ELSE PyInt(0),
     total_time |-> tm.total_time,
     average_time |-> IF tm.call_count.v > 0
                        THEN PyDiv(tm.total_time, tm.call_count) ELSE PyInt(0)])

UsageKeys ==
    {"inputTokens", "outputTokens", "totalTokens", "cacheWriteInputTokens",
     "cacheReadInputTokens"}

\* the body of _extract_metrics (lines 229-262): the statistics, or the
\* exception the body raises
MetricsBody(result) ==
    LET metrics == result.metrics
    IN  IF metrics = PyNone THEN PyExc("AttributeError")
        ELSE IF metrics.accumulated_usage.ty # "dict" THEN PyExc("AttributeError")
        ELSE IF metrics.accumulated_metrics.ty # "dict" THEN PyExc("AttributeError")
        ELSE LET total == PySum(metrics.cycle_durations)
                 average == IF Truthy(metrics.cycle_durations)
                              THEN PyDiv(total, PyLen(metrics.cycle_durations))
                              ELSE PyInt(0)
             IN  IF IsExc(total) THEN total
                 ELSE IF IsExc(average) THEN average
                 ELSE IF metrics.tool_metrics.ty # "dict" THEN PyExc("AttributeError")
                 ELSE PyDict(
                   [accumulated_usage |->
                        PyDict([k \in UsageKeys |->
                                  DictGet(metrics.accumulated_usage, k, PyInt(0))]),
                    accumulated_metrics |->
                        PyDict([latencyMs |->
                                  DictGet(metrics.accumulated_metrics, "latencyMs", PyInt(0))]),
                    cycle_count |-> metrics.cycle_count,
                    cycle_durations |-> metrics.cycle_durations,
                    total_duration |-> total,
                    average_cycle_time |-> average,
                    tool_metrics |->
                        PyDict([t \in DOMAIN metrics.tool_metrics.d |->
                                  ToolMetric(metrics.tool_metrics.d[t])])])

\* _extract_metrics without its except clause
extract_metrics_unguarded(result) == MetricsBody(result)

\* _extract_metrics (lines 226-266)
extract_metrics(result) ==
    LET body == MetricsBody(result)
    IN  IF IsExc(body) THEN ErrorRecord(body.e) ELSE body

\* ------------------------------------------------------------ CSV reports

\* an exception raised while a statement's values are computed, in order,
\* leaves the statement: the first exception of vals, or otherwise
FirstExc(vals, otherwise) ==
    LET bad == {i \in DOMAIN vals : IsExc(vals[i])}
    IN  IF bad = {} THEN otherwise ELSE vals[Min(bad)]

\* the row generate_detailed_csv writes for one run (csv_generator.py, lines
\* 65-117), or the exception the loop body raises
DetailedRow(r) ==
    LET empty == PyDict(EmptyMap)
        usage == DictGet(r.metrics, "accumulated_usage", empty)
        cart_data == r.cart_data
        items == DictGet(cart_data, "items", PyList(<<>>))
        each == IF IsExc(items) THEN <<>> ELSE PyIter(items)
        item_names == [i \in DOMAIN each |-> DictGet(each[i], "name", PyStr(<<>>))]
        item_prices == [i \in DOMAIN each |-> DictGet(each[i], "price", PyInt(0))]
        tool_metrics == DictGet(r.metrics, "tool_metrics", empty)
        calls(t) == DictGet(DictGet(tool_metrics, t, empty), "call_count", PyInt(0))
        joined == IF \E i \in DOMAIN item_names : item_names[i].ty # "str"
                    THEN PyExc("TypeError")
                    ELSE PyStr(Join([i \in DOMAIN item_names |-> item_names[i].s],
                                    <<";", SP>>))
        average == IF item_prices = <<>> THEN PyInt(0)
                   ELSE PyDiv(PySum(PyList(item_prices)), PyInt(Len(item_prices)))
        row == [ty |-> "row", timestamp |-> r.timestamp,
                execution_time_seconds |-> r.execution_time_seconds,
                total_tokens |-> DictGet(usage, "totalTokens", PyInt(0)),
                input_tokens |-> DictGet(usage, "inputTokens", PyInt(0)),
                output_tokens |-> DictGet(usage, "outputTokens", PyInt(0)),
                cache_read_tokens |-> DictGet(usage, "cacheReadInputTokens", PyInt(0)),
                cache_write_tokens |-> DictGet(usage, "cacheWriteInputTokens", PyInt(0)),
                cycle_count |-> DictGet(r.metrics, "cycle_count", PyInt(0)),
                total_items |-> DictGet(cart_data, "total_items", PyInt(0)),
                total_price |-> DictGet(cart_data, "total_price", PyInt(0)),
                currency |-> DictGet(cart_data, "currency", EUR),
                items_count |-> PyInt(Len(each)),
                item_names |-> joined,
                average_item_price |-> average,
                tool_calls_total |->
                    PyAdd(PyAdd(calls("search_products"), calls("add_to_cart")),
                          calls("get_cart_content")),
                search_products_calls |-> calls("search_products"),
                add_to_cart_calls |-> calls("add_to_cart"),
                get_cart_content_calls |-> calls("get_cart_content"),
                task |-> r.task]
    IN  FirstExc(<<usage, row.total_tokens, row.cycle_count, row.total_items, items>>
                   \o item_names \o item_prices
                   \o <<tool_metrics, row.search_products_calls, row.add_to_cart_calls,
                        row.get_cart_content_calls, row.tool_calls_total, joined, average>>,
                 row)

\* generate_detailed_csv (lines 50-122): the lines the report file holds when
\* the function ends, the header first, and the exception that ended it
generate_detailed_csv(runs) ==
    LET rows == [i \in DOMAIN runs |-> DetailedRow(runs[i])]
        bad == {i \in DOMAIN rows : IsExc(rows[i])}
        fieldnames == <<"timestamp", "execution_time_seconds", "total_tokens",
                        "input_tokens", "output_tokens", "cache_read_tokens",
                        "cache_write_tokens", "cycle_count", "total_items", "total_price",
                        "currency", "items_count", "item_names", "average_item_price",
                        "tool_calls_total", "search_products_calls", "add_to_cart_calls",
                        "get_cart_content_calls", "task">>
    IN  IF bad = {} THEN [ty |-> "report", written |-> <<fieldnames>> \o rows, exc |-> "none"]
        ELSE [ty |-> "report", written |-> <<fieldnames>> \o SubSeq(rows, 1, Min(bad) - 1),
              exc |-> rows[Min(bad)].e]

\* generate_summary_csv (lines 124-160): the lists of lines 134-141 are built
\* before the file is opened; each value is written in the format named
generate_summary_csv(runs) ==
    LET col(f(_)) == [i \in DOMAIN runs |-> f(runs[i])]
        token(r, k) == LET u == PyItem(r.metrics, "accumulated_usage")
                       IN  IF IsExc(u) THEN u ELSE PyItem(u, k)
        usage(r) == token(r, "totalTokens")
        input(r) == token(r, "inputTokens")
        output(r) == token(r, "outputTokens")
        cache(r) == LET u == PyItem(r.metrics, "accumulated_usage")
                    IN  IF IsExc(u) THEN u ELSE DictGet(u, "cacheReadInputTokens", PyInt(0))
        cycle(r) == PyItem(r.metrics, "cycle_count")
        price(r) == PyItem(r.cart_data, "total_price")
        count(r) == PyItem(r.cart_data, "total_items")
        time(r) == PyInt(r.execution_time_seconds)
        n == PyInt(Len(runs))
        mean(l) == PyDiv(PySum(PyList(l)), n)
        least(l) == l[CHOOSE i \in DOMAIN l : \A j \in DOMAIN l : l[i].v <= l[j].v]
        most(l) == l[CHOOSE i \in DOMAIN l : \A j \in DOMAIN l : l[i].v >= l[j].v]
        rank(l, k) ==
            l[CHOOSE i \in DOMAIN l :
                 /\ Cardinality({j \in DOMAIN l : l[j].v < l[i].v}) < k
                 /\ Cardinality({j \in DOMAIN l : l[j].v <= l[i].v}) >= k]
        median(l) ==
            IF Len(l) % 2 = 1 THEN rank(l, (Len(l) + 1) \div 2)
            ELSE PyDiv(PyAdd(rank(l, Len(l) \div 2), rank(l, Len(l) \div 2 + 1)), PyInt(2))
        line(label, format, value) == [label |-> label, format |-> format, value |-> value]
        lists == col(usage) \o col(input) \o col(output) \o col(cache) \o col(cycle)
                   \o col(price) \o col(count)
        sums == <<PySum(PyList(col(price))), PySum(PyList(col(count)))>>
    IN  IF runs = <<>> THEN [ty |-> "report", written |-> <<>>, exc |-> "none"]
        ELSE IF \E i \in DOMAIN lists : IsExc(lists[i])
          THEN [ty |-> "report", written |-> <<>>, exc |-> FirstExc(lists, PyNone).e]
        ELSE IF \E i \in DOMAIN sums : IsExc(sums[i])
          THEN [ty |-> "report",
                written |-> <<<<"Metric", "Value">>, line("Total Runs", "", n)>>,
                exc |-> FirstExc(sums, PyNone).e]
        ELSE [ty |-> "report",
              written |->
                <<<<"Metric", "Value">>,
                  line("Total Runs", "", n),
                  line("Average Execution Time (s)", ".2f", mean(col(time))),
                  line("Median Execution Time (s)", ".2f", median(col(time))),
                  line("Min Execution Time (s)", ".2f", least(col(time))),
                  line("Max Execution Time (s)", ".2f", most(col(time))),
                  line("Average Total Tokens", ".0f", mean(col(usage))),
                  line("Average Input Tokens", ".0f", mean(col(input))),
                  line("Average Output Tokens", ".0f", mean(col(output))),
                  line("Average Cache Read Tokens", ".0f", mean(col(cache))),
                  line("Total Cache Read Tokens", ",", PySum(PyList(col(cache)))),
                  line("Average Cycles", ".1f", mean(col(cycle))),
                  line("Average Cart Price (EUR)", ".2f", mean(col(price))),
                  line("Average Items per Cart", ".1f", mean(col(count))),
                  line("Total Items Purchased", "", sums[2]),
                  line("Total Amount Spent (EUR)", ".2f", sums[1])>>,
              exc |-> "none"]

\* ------------------------------------------------------------- inputs

\* the longest summary section, tool-call sequence and cart text the
\* functions are applied to
MaxLines == 3

MaxCalls == 2

MaxItemLines == 2

\* all sequences over S of length at most n
SeqsUpTo(S, n) == UNION {[1..k -> S] : k \in 0..n}

\* lines of a transcript

MarkerLine ==
    <<"*", "*", "TOOL_CALLS_SUMMARY", ":", "*", "*">>

SearchLine ==
    <<"-", " ", "Tool", ":", " ", "search_products", " ", "|", " ", "Query", ":", " ",
      "milk", " ", "|", " ", "Results", ":", " ", "5">>

AddLine ==
    <<"-", " ", "Tool", ":", " ", "add_to_cart", " ", "|", " ", "Products", ":", " ",
      "Milk", " ", "|", " ", "Quantity", ":", " ", "1", " ", "|", " ", "Total", ":", " ",
      "0", ".", "99", " ", "€">>

CartLine ==
    <<"-", " ", "Tool", ":", " ", "get_cart_content", " ", "|", " ", "Result", ":", " ",
      "1", " ", "item", "(", "s", ")", " ", "in", " ", "cart", ":", " ", "Milk", " ", "(",
      "1", "x", ",", " ", "0", ".", "89", " ", "€", ")">>

CartHeadLine ==
    <<"-", " ", "Tool", ":", " ", "get_cart_content", " ", "|", " ", "Result", ":", " ",
      "Cart", ":">>

ProductLine ==
    <<" ", " ", "-", " ", "Product", ":", " ", "Milk", " ", "|", " ", "Quantity", ":", " ",
      "1", " ", "|", " ", "Price", ":", " ", "0", ".", "89", " ", "€">>

BlankLine == <<>>

ProseLine == <<"Done">>

SummaryLines ==
    {SearchLine, AddLine, CartLine, CartHeadLine, ProductLine, BlankLine, ProseLine}

\* str(result): prose, or a summary section of at most MaxLines lines
Transcripts ==
    {Join(<<MarkerLine>> \o ls, <<NL>>) : ls \in SeqsUpTo(SummaryLines, MaxLines)}
      \cup {Join(ls, <<NL>>) : ls \in SeqsUpTo({CartLine, ProseLine}, 2)}

\* the text after the get_cart_content label: a head and at most
\* MaxItemLines further lines

HeadNone ==
    <<>>

HeadTotalItems ==
    <<"Total", " ", "items", ":", " ", "2", " ", "|", " ", "Total", " ", "price", ":", " ",
      "1", ".", "68", " ", "€", " ", "|", " ", "Items", ":">>

HeadItemsList ==
    <<"2", " ", "items", " ", "total", " ", "|", " ", "Total", " ", "price", ":", " ", "1",
      ".", "68", " ", "€", " ", "|", " ", "Items", ":", " ", "1", "x", " ", "Milk", " ",
      "(", "0", ".", "89", " ", "€", ")", ",", " ", "1", "x", " ", "Bread", " ", "(", "0",
      ".", "79", " ", "€", ")">>

HeadParen ==
    <<"2", " ", "items", " ", "total", " ", "(", "Milk", ":", " ", "0", ".", "89", " ",
      "€", ",", " ", "Bread", ":", " ", "0", ".", "79", " ", "€", ")", " ", "|", " ",
      "Total", ":", " ", "1", ".", "68", " ", "€">>

HeadParenNone ==
    <<"2", " ", "items", " ", "total", " ", "|", " ", "Total", ":", " ", "1", ".", "68",
      " ", "€">>

HeadInCart ==
    <<"1", " ", "item", "(", "s", ")", " ", "in", " ", "cart", ":", " ", "Milk", " ", "(",
      "1", "x", ",", " ", "0", ".", "89", " ", "€", ")">>

HeadInCartTwo ==
    <<"2", " ", "item", "(", "s", ")", " ", "in", " ", "cart", ":", " ", "Milk", " ", "(",
      "1", "x", ",", " ", "0", ".", "89", " ", "€", ")", ",", " ", "Bread", " ", "(", "1",
      "x", ",", " ", "0", ".", "79", " ", "€", ")">>

HeadJson ==
    <<"[", "{", "\"", "name", "\"", ":", " ", "\"", "Milk", "\"", ",", " ", "\"", "price",
      "\"", ":", " ", "\"", "0", ".", "89", " ", "€", "\"", "}", "]">>

HeadJsonNote ==
    <<"[", "{", "\"", "name", "\"", ":", " ", "\"", "Milk", "\"", ",", " ", "\"", "price",
      "\"", ":", " ", "\"", "0", ".", "89", " ", "€", "\"", ",", " ", "\"", "note", "\"",
      ":", " ", "\"", "1", " ", "item", "(", "s", ")", " ", "in", " ", "cart", ":", " ",
      "Bread", " ", "(", "1", "x", ",", " ", "0", ".", "79", " ", "€", ")", "\"", "}", "]">>

HeadJsonEmpty ==
    <<"[", "]">>

HeadEmpty ==
    <<"Cart", " ", "is", " ", "empty">>

CartHeads ==
    {HeadNone,
     HeadTotalItems,
     HeadItemsList,
     HeadParen,
     HeadParenNone,
     HeadInCart, HeadInCartTwo, HeadJson, HeadJsonNote, HeadJsonEmpty, HeadEmpty}

DashItemLine ==
    <<"-", " ", "Milk", " ", "(", "1", "x", ")", " ", "|", " ", "Price", ":", " ", "0",
      ".", "89", " ", "€">>

PlainItemLine ==
    <<"-", " ", "Bread", " ", "(", "0", ".", "79", " ", "€", ")">>

ProductItemLine ==
    <<"Product", ":", " ", "Milk", " ", "|", " ", "Quantity", ":", " ", "2", " ", "|", " ",
      "Price", ":", " ", "0", ".", "89", " ", "€">>

TotalLine ==
    <<"Total", ":", " ", "1", ".", "68", " ", "€">>

CartItemLines == {DashItemLine, PlainItemLine, ProductItemLine, TotalLine}

CartTexts ==
    {Join(<<h>> \o ls, <<NL>>) : h \in CartHeads, ls \in SeqsUpTo(CartItemLines, MaxItemLines)}

\* transcripts whose summary holds a get_cart_content entry with each cart
\* text, alone or followed by a further entry
Responses ==
    {CartLabel \o t : t \in CartTexts}
      \cup {CartLabel \o t \o <<NL>> \o AddLine : t \in CartTexts}
      \cup Transcripts

\* results of get_cart_content: JSON text of a cart, and plain text

CartJsonMilk ==
    <<"{", "\"", "cart", "\"", ":", " ", "{", "\"", "products", "\"", ":", " ", "[", "{",
      "\"", "name", "\"", ":", " ", "\"", "Milk", "\"", ",", " ", "\"", "price", "\"", ":",
      " ", "\"", "0", ".", "99", "\"", ",", " ", "\"", "quantity", "\"", ":", " ", "1",
      "}", "]", ",", " ", "\"", "total_price", "\"", ":", " ", "\"", "0", ".", "99", "\"",
      "}", "}">>

CartJsonTwo ==
    <<"{", "\"", "items", "\"", ":", " ", "[", "{", "\"", "name", "\"", ":", " ", "\"",
      "Milk", "\"", ",", " ", "\"", "price", "\"", ":", " ", "0", ".", "89", ",", " ",
      "\"", "quantity", "\"", ":", " ", "2", "}", ",", " ", "{", "\"", "name", "\"", ":",
      " ", "\"", "Bread", "\"", ",", " ", "\"", "price", "\"", ":", " ", "\"", "0", ",",
      "79", " ", "€", "\"", ",", " ", "\"", "cart_item_id", "\"", ":", " ", "12", "}", "]",
      ",", " ", "\"", "total", "\"", ":", " ", "\"", "2", ",", "57", " ", "€", "\"", "}">>

CartJsonNoProducts ==
    <<"{", "\"", "cart", "\"", ":", " ", "{", "\"", "products", "\"", ":", " ", "[", "]",
      ",", " ", "\"", "total_price", "\"", ":", " ", "\"", "0", "\"", "}", "}">>

CartJsonBadPrice ==
    <<"{", "\"", "cart", "\"", ":", " ", "{", "\"", "products", "\"", ":", " ", "[", "{",
      "\"", "name", "\"", ":", " ", "\"", "Milk", "\"", ",", " ", "\"", "price", "\"", ":",
      " ", "\"", "abc", "\"", "}", ",", " ", "{", "\"", "name", "\"", ":", " ", "\"",
      "Bread", "\"", ",", " ", "\"", "price", "\"", ":", " ", "\"", "0", ".", "79", "\"",
      "}", "]", ",", " ", "\"", "total_price", "\"", ":", " ", "\"", "0", ".", "79", "\"",
      "}", "}">>

CartJsonBadTotal ==
    <<"{", "\"", "cart", "\"", ":", " ", "{", "\"", "products", "\"", ":", " ", "[", "{",
      "\"", "name", "\"", ":", " ", "\"", "Milk", "\"", ",", " ", "\"", "price", "\"", ":",
      " ", "\"", "0", ".", "99", "\"", "}", "]", ",", " ", "\"", "total_price", "\"", ":",
      " ", "\"", "1", ".", "234", ",", "56", "\"", "}", "}">>

CartJsonNegative ==
    <<"{", "\"", "cart", "\"", ":", " ", "{", "\"", "products", "\"", ":", " ", "[", "{", "\"",
      "name", "\"", ":", " ", "\"", "Milk", "\"", ",", " ", "\"", "price", "\"", ":", " ", "\"",
      "-", "0", ".", "99", "\"", ",", " ", "\"", "quantity", "\"", ":", " ", "1", "}", "]", ",",
      " ", "\"", "total_price", "\"", ":", " ", "\"", "-", "0", ".", "99", "\"", ",", " ", "\"",
      "total_items", "\"", ":", " ", "1", "}", "}">>

CartJsonZeroQuantity ==
    <<"{", "\"", "cart", "\"", ":", " ", "{", "\"", "products", "\"", ":", " ", "[", "{", "\"",
      "name", "\"", ":", " ", "\"", "Milk", "\"", ",", " ", "\"", "price", "\"", ":", " ", "\"",
      "0", ".", "99", "\"", ",", " ", "\"", "quantity", "\"", ":", " ", "0", "}", "]", ",", " ",
      "\"", "total_price", "\"", ":", " ", "\"", "0", ".", "99", "\"", "}", "}">>

CartPlainText ==
    <<"Cart", " ", "is", " ", "empty">>


ToolCall(tool_name, arguments, result) ==
    [tool_name |-> tool_name, arguments |-> arguments, result |-> result, status |-> "success"]

GetCart(result) == ToolCall(GetCartContent, PyDict(EmptyMap), result)

\* the tool-call records Tier A scans
CartRecords ==
    {GetCart(PyStr(CartJsonMilk)), GetCart(PyStr(CartJsonTwo)),
     GetCart(PyStr(CartJsonNoProducts)), GetCart(PyStr(CartJsonBadPrice)),
     GetCart(PyStr(CartJsonBadTotal)), GetCart(PyStr(CartPlainText)),
     GetCart(PyStr(CartJsonNegative)), GetCart(PyStr(CartJsonZeroQuantity)),
     GetCart(PyDict([cart_summary |-> PyStr(CartJsonMilk)])),
     GetCart(PyDict([cart_summary |-> PyStr(Drop(CartLine, Len(CartLabel)))])),
     GetCart(PyNone)}

OtherRecords ==
    {ToolCall(AddToCart, PyDict([products |-> PyStr(<<"Milk">>), quantity |-> PyStr(<<"1">>)]),
              PyDict([total_cost |-> PyStr(<<"0", ".", "99", SP, "€">>)])),
     ToolCall(AddToCart, PyDict(EmptyMap), PyNone),
     ToolCall(AddToCart, PyDict(EmptyMap),
              PyDict([total_cost |-> PyStr(<<"0", ".", "99", SP, "€">>)])),
     ToolCall(<<"search_products">>, PyDict([product_name |-> PyStr(<<"milk">>)]),
              PyDict([results_count |-> PyStr(<<"5">>)]))}

ToolCallSeqs == SeqsUpTo(CartRecords \cup OtherRecords, MaxCalls)

\* call objects of a native history
Call(name, result, status) ==
    [name |-> name, arguments |-> PyDict(EmptyMap), result |-> result, status |-> status]

CallA == Call(<<"search_products">>, PyStr(<<"ok">>), "success")

CallB == Call(AddToCart, PyNone, "error")

CallC == Call(GetCartContent, PyStr(CartJsonMilk), "success")

CallD == Call(GetCartContent, PyStr(CartJsonNoProducts), "success")

CallLists == {PyNone, PyList(<<>>), PyList(<<CallA>>), PyList(<<CallB, CallC>>), PyInt(5)}

CycleLists ==
    {PyNone,
     PyList(<<[id |-> PyInt(1), tool_calls |-> PyList(<<>>)]>>),
     PyList(<<[id |-> PyInt(1), tool_calls |-> PyList(<<CallA, CallB>>)],
              [id |-> PyInt(2), tool_calls |-> PyList(<<CallC>>)]>>),
     PyInt(5)}

States == {PyNone} \cup {[ty |-> "obj", tool_calls |-> c] : c \in CallLists}

\* raw execution statistics
Usage == PyDict([inputTokens |-> PyInt(5), outputTokens |-> PyInt(2), totalTokens |-> PyInt(7)])

ToolStat(calls, ok, time) ==
    [call_count |-> PyInt(calls), success_count |-> PyInt(ok),
     error_count |-> PyInt(calls - ok), total_time |-> PyFloat(time)]

Stats(usage, latency, count, durations, tools) ==
    [ty |-> "obj", accumulated_usage |-> usage, accumulated_metrics |-> latency,
     cycle_count |-> PyInt(count), cycle_durations |-> durations, tool_metrics |-> tools]

DurationLists ==
    {PyList(<<>>), PyList(<<PyFloat(50)>>), PyList(<<PyFloat(50), PyFloat(25)>>), PyNone}

ToolStats ==
    {PyDict(EmptyMap),
     PyDict([add_to_cart |-> ToolStat(2, 1, 50), get_cart_content |-> ToolStat(0, 0, 0)]),
     PyNone}

MetricsObjects ==
    {PyNone}
      \cup {Stats(u, l, c, ds, ts) :
              u \in {Usage, PyDict(EmptyMap), PyNone},
              l \in {PyDict([latencyMs |-> PyInt(12)]), PyDict(EmptyMap)},
              c \in 0..2, ds \in DurationLists, ts \in ToolStats}

GoodStats ==
    Stats(Usage, PyDict([latencyMs |-> PyInt(12)]), 2, PyList(<<PyFloat(50), PyFloat(25)>>),
          PyDict([add_to_cart |-> ToolStat(2, 1, 50)]))

AgentResult(cycles, tool_calls, state, text, metrics) ==
    [cycles |-> cycles, tool_calls |-> tool_calls, state |-> state, text |-> text,
     metrics |-> metrics]

\* the agent results _extract_tool_calls decodes
Results ==
    {AgentResult(cy, tc, st, tx, GoodStats) :
       cy \in CycleLists, tc \in CallLists, st \in States,
       tx \in {ProseLine, Join(<<MarkerLine, AddLine>>, <<NL>>)}}

\* the agent results a run can end with
NativeCartResult ==
    AgentResult(PyNone, PyList(<<CallA, CallC>>), PyNone, ProseLine, GoodStats)

SummaryOnlyResult ==
    AgentResult(PyNone, PyNone, PyNone, Join(<<MarkerLine, AddLine, CartLine, BlankLine>>, <<NL>>),
                GoodStats)

EmptyCartResult ==
    AgentResult(PyNone, PyList(<<CallD>>), PyNone, Join(<<MarkerLine, CartLine>>, <<NL>>),
                GoodStats)

BrokenResult == AgentResult(PyNone, PyList(<<CallB>>), PyNone, ProseLine, PyNone)

ProseResult == AgentResult(PyNone, PyNone, PyNone, ProseLine, GoodStats)

RunResults ==
    {NativeCartResult, SummaryOnlyResult, EmptyCartResult, BrokenResult, ProseResult}

\* the run files the CSV reports are generated from: the export records of
\* at most MaxRecords runs, in the order of their timestamps
MaxRecords == 2

ResultLists == UNION {[1..n -> RunResults] : n \in 0..MaxRecords}

ExportOf(k, result) ==
    LET tool_calls_data == extract_tool_calls(result)
        cart_data == extract_cart_from_tool_calls(tool_calls_data)
        structured_cart == extract_cart_from_agent_response(result.text)
    IN  [task |-> <<"task", k>>, timestamp |-> k, execution_time_seconds |-> k,
         cart_data |-> IF (~Truthy(cart_data)
                             \/ (cart_data.ty = "dict"
                                   /\ ~Truthy(DictGet(cart_data, "items", PyNone))))
                            /\ Truthy(structured_cart)
                         THEN structured_cart ELSE cart_data,
         metrics |-> extract_metrics(result),
         tool_calls |-> tool_calls_data, agent_response |-> result.text]

Exports(results) == [k \in DOMAIN results |-> ExportOf(k, results[k])]

\* str(e) of the exceptions a run can fail with: RuntimeError("boom") and an
\* exception raised without a message, such as asyncio.TimeoutError()
ExceptionTexts == {<<"boom">>, <<>>}

\* ------------------------------------------------------------ run_task

\* the run_task calls in flight on one agent, the clock's last tick, and the
\* ticks of one second of the clock
NumRuns == 2

MaxTime == 2

TicksPerSecond == 2

Runs == 1..NumRuns

\* the task of run p
Task(p) == <<"task", p>>

\* strftime("%Y%m%d_%H%M%S") of a clock reading: its whole seconds
SecondOf(t) == t \div TicksPerSecond

\* the export file's name (lines 1016-1018)
ExportName(t) == <<"shopping_run_", SecondOf(t), ".json">>

VARIABLES
    now,            \* the clock, in ticks
    session_state,  \* self.session_state
    files,          \* the export directory: file name -> content
    run,            \* the locals of each run_task call
    fn, arg, out    \* a core function applied on its own, its input and output

vars == <<now, session_state, files, run, fn, arg, out>>

runVars == <<now, session_state, files, run>>

coreVars == <<fn, arg, out>>

IdleRun ==
    [pc |-> "idle", start_time |-> 0, end_time |-> 0, result |-> PyNone,
     metrics_data |-> PyNone, tool_calls_data |-> <<>>, cart_data |-> PyNone,
     steps |-> <<>>, filepath |-> PyNone, returned |-> PyNone]

RunInit ==
    /\ now = 0
    /\ session_state = EmptyMap
    /\ files = EmptyMap
    /\ run = [p \in Runs |-> IdleRun]

CoreIdle == fn = "none" /\ arg = PyNone /\ out = PyNone

Init == RunInit /\ CoreIdle

\* time passes
Tick ==
    /\ now < MaxTime
    /\ now' = now + 1
    /\ UNCHANGED <<session_state, files, run>>
    /\ UNCHANGED coreVars

\* lines 123-159: the session state is updated and the agent is set up
StartTask(p) ==
    /\ run[p].pc = "idle"
    /\ session_state' =
         Put(Put(Put(session_state, "current_task", Task(p)), "timestamp", now),
             "task_count",
             (IF "task_count" \in DOMAIN session_state THEN session_state["task_count"] ELSE 0) + 1)
    /\ run' = [run EXCEPT ![p].pc = "invoking", ![p].start_time = now]
    /\ UNCHANGED <<now, files>>
    /\ UNCHANGED coreVars

\* the value run_task returns from its except clause (lines 214-224)
Failure(e) ==
    [success |-> FALSE, response |-> PyNone, cart_data |-> PyNone, metrics |-> PyNone,
     error |-> PyStr(e), message |-> PyStr(<<"Task", SP, "execution", SP, "failed">>)]

\* the except clause remembering the failed task as the last one
AgentFailsRemembered(p, e) ==
    /\ run[p].pc = "invoking"
    /\ run' = [run EXCEPT ![p].pc = "done", ![p].returned = Failure(e)]
    /\ session_state' = Put(Put(session_state, "last_task", Task(p)), "last_cart", PyNone)
    /\ UNCHANGED <<now, files>>
    /\ UNCHANGED coreVars

\* lines 134-160 raise: the client, the tool listing or the agent fails with
\* an exception whose text str(e) is e
AgentFails(p, e) ==
    /\ run[p].pc = "invoking"
    /\ run' = [run EXCEPT ![p].pc = "done", ![p].returned = Failure(e)]
    /\ UNCHANGED <<now, session_state, files>>
    /\ UNCHANGED coreVars

\* lines 160-171: the agent returns result; metrics_data, tool_calls_data
\* and cart_data are what _extract_metrics, _extract_tool_calls and
\* _extract_cart_from_tool_calls return for it
AgentReturns(p, result, metrics_data, tool_calls_data, cart_data) ==
    /\ run[p].pc = "invoking"
    /\ run' = [run EXCEPT ![p].pc = "collected",
                          ![p].end_time = now,
                          ![p].result = result,
                          ![p].metrics_data = metrics_data,
                          ![p].tool_calls_data = tool_calls_data,
                          ![p].cart_data = cart_data,
                          ![p].steps = <<"_extract_metrics", "_extract_tool_calls",
                                         "_extract_cart_from_tool_calls">>]
    /\ UNCHANGED <<now, session_state, files>>
    /\ UNCHANGED coreVars

\* the condition of line 174
NeedsAgentResponse(cart_data) ==
    ~Truthy(cart_data) \/ (cart_data.ty = "dict" /\ ~Truthy(DictGet(cart_data, "items", PyNone)))

\* lines 174-182 with the time of the extraction added to the snapshot
TryAgentResponseStamped(p, result, structured_cart) ==
    /\ run[p].pc = "collected"
    /\ run[p].result = result
    /\ NeedsAgentResponse(run[p].cart_data)
    /\ run' = [run EXCEPT ![p].pc = "reconciled",
                          ![p].cart_data =
                             IF structured_cart.ty = "dict"
                               THEN PyDict(Put(structured_cart.d, "timestamp", PyInt(now)))
                               ELSE IF Truthy(structured_cart) THEN structured_cart ELSE @,
                          ![p].steps = Append(@, "_extract_cart_from_agent_response")]
    /\ UNCHANGED <<now, session_state, files>>
    /\ UNCHANGED coreVars

\* lines 174-182: the cart is looked for in the agent response of the run's
\* result; structured_cart is what _extract_cart_from_agent_response returns
TryAgentResponse(p, result, structured_cart) ==
    /\ run[p].pc = "collected"
    /\ run[p].result = result
    /\ NeedsAgentResponse(run[p].cart_data)
    /\ run' = [run EXCEPT ![p].pc = "reconciled",
                          ![p].cart_data =
                             IF Truthy(structured_cart) THEN structured_cart ELSE @,
                          ![p].steps = Append(@, "_extract_cart_from_agent_response")]
    /\ UNCHANGED <<now, session_state, files>>
    /\ UNCHANGED coreVars

\* line 174 is false: the Tier A value is kept
KeepCart(p) ==
    /\ run[p].pc = "collected"
    /\ ~NeedsAgentResponse(run[p].cart_data)
    /\ run' = [run EXCEPT ![p].pc = "reconciled"]
    /\ UNCHANGED <<now, session_state, files>>
    /\ UNCHANGED coreVars

\* the export record built without the collected tool calls
ExportRecordNoCalls(p) ==
    [task |-> Task(p), timestamp |-> run[p].start_time,
     execution_time_seconds |-> run[p].end_time - run[p].start_time,
     cart_data |-> run[p].cart_data, metrics |-> run[p].metrics_data,
     tool_calls |-> <<>>, agent_response |-> run[p].result.text]

\* the export record (lines 185-193)
ExportRecord(p) ==
    [task |-> Task(p), timestamp |-> run[p].start_time,
     execution_time_seconds |-> run[p].end_time - run[p].start_time,
     cart_data |-> run[p].cart_data, metrics |-> run[p].metrics_data,
     tool_calls |-> run[p].tool_calls_data, agent_response |-> run[p].result.text]

\* the value run_task returns (lines 203-212)
Success(p) ==
    [success |-> TRUE, response |-> PyStr(run[p].result.text), cart_data |-> run[p].cart_data,
     metrics |-> run[p].metrics_data, tool_calls |-> run[p].tool_calls_data,
     error |-> PyNone, message |-> PyNone]

\* lines 198-201
Remember(p) ==
    Put(Put(Put(Put(session_state, "last_response", run[p].result.text),
                "last_task", Task(p)),
            "last_metrics", run[p].metrics_data),
        "last_cart", run[p].cart_data)

\* lines 185-212 with _export_data (lines 1013-1024): the record is written
\* to the file named after the current second, replacing what the file held
ExportData(p) ==
    /\ run[p].pc = "reconciled"
    /\ files' = Put(files, ExportName(now), ExportRecord(p))
    /\ session_state' = Remember(p)
    /\ run' = [run EXCEPT ![p].pc = "done",
                          ![p].steps = Append(@, "_export_data"),
                          ![p].filepath = PyStr(ExportName(now)),
                          ![p].returned = Success(p)]
    /\ UNCHANGED now
    /\ UNCHANGED coreVars

\* the same when the write raises (lines 1026-1028): no file, the run goes on
ExportFails(p) ==
    /\ run[p].pc = "reconciled"
    /\ session_state' = Remember(p)
    /\ run' = [run EXCEPT ![p].pc = "done",
                          ![p].steps = Append(@, "_export_data"),
                          ![p].returned = Success(p)]
    /\ UNCHANGED <<now, files>>
    /\ UNCHANGED coreVars

Next ==
    \/ Tick
    \/ \E p \in Runs : StartTask(p)
    \/ \E p \in Runs, e \in ExceptionTexts : AgentFails(p, e)
    \/ \E p \in Runs, result \in RunResults :
          AgentReturns(p, result, extract_metrics(result), extract_tool_calls(result),
                       extract_cart_from_tool_calls(extract_tool_calls(result)))
    \/ \E p \in Runs, result \in RunResults :
          TryAgentResponse(p, result, extract_cart_from_agent_response(result.text))
    \/ \E p \in Runs : KeepCart(p)
    \/ \E p \in Runs : ExportData(p)
    \/ \E p \in Runs : ExportFails(p)

Spec == Init /\ [][Next]_vars

\* ------------------------------------------- the core functions on their own

\* a core function is applied to an input: tool_calls, cart_data and
\* metrics_data are what the function returns for it

ParseToolCallsFromResponse(response_text, tool_calls) ==
    /\ fn = "none"
    /\ fn' = "_parse_tool_calls_from_response"
    /\ arg' = PyStr(response_text)
    /\ out' = PyList(tool_calls)
    /\ UNCHANGED runVars

ExtractToolCalls(result, tool_calls) ==
    /\ fn = "none"
    /\ fn' = "_extract_tool_calls"
    /\ arg' = result
    /\ out' = PyList(tool_calls)
    /\ UNCHANGED runVars

ExtractCartFromToolCalls(tool_calls_data, cart_data) ==
    /\ fn = "none"
    /\ fn' = "_extract_cart_from_tool_calls"
    /\ arg' = PyList(tool_calls_data)
    /\ out' = cart_data
    /\ UNCHANGED runVars

ExtractCartFromAgentResponse(agent_response, cart_data) ==
    /\ fn = "none"
    /\ fn' = "_extract_cart_from_agent_response"
    /\ arg' = PyStr(agent_response)
    /\ out' = cart_data
    /\ UNCHANGED runVars

ExtractMetrics(result, metrics_data) ==
    /\ fn = "none"
    /\ fn' = "_extract_metrics"
    /\ arg' = result
    /\ out' = metrics_data
    /\ UNCHANGED runVars

GenerateCsv(name, runs, report) ==
    /\ fn = "none"
    /\ fn' = name
    /\ arg' = runs
    /\ out' = report
    /\ UNCHANGED runVars

CoreNext ==
    \/ \E response_text \in Transcripts :
          ParseToolCallsFromResponse(response_text,
                                     parse_tool_calls_from_response(response_text))
    \/ \E result \in Results : ExtractToolCalls(result, extract_tool_calls(result))
    \/ \E tool_calls_data \in ToolCallSeqs :
          ExtractCartFromToolCalls(tool_calls_data,
                                   extract_cart_from_tool_calls(tool_calls_data))
    \/ \E agent_response \in Responses :
          ExtractCartFromAgentResponse(agent_response,
                                       extract_cart_from_agent_response(agent_response))
    \/ \E metrics \in MetricsObjects :
          ExtractMetrics(AgentResult(PyNone, PyNone, PyNone, ProseLine, metrics),
                         extract_metrics(AgentResult(PyNone, PyNone, PyNone, ProseLine, metrics)))
    \/ \E results \in ResultLists :
          GenerateCsv("generate_detailed_csv", Exports(results),
                      generate_detailed_csv(Exports(results)))
    \/ \E results \in ResultLists :
          GenerateCsv("generate_summary_csv", Exports(results),
                      generate_summary_csv(Exports(results)))

CoreSpec == Init /\ [][CoreNext]_vars

\* ------------------------------------------------------------- properties

\* v is a cart snapshot with at least one line item
HasLineItems(v) ==
    /\ v.ty = "dict"
    /\ "items" \in DOMAIN v.d
    /\ v.d["items"].ty = "list"
    /\ v.d["items"].l # <<>>

IsErrorRecord(v) == v.ty = "dict" /\ DOMAIN v.d = {"error"}

\* C1: in run_task, whenever Tier A produced no cart with at least one line
\* item, Tier B has been attempted by the time the export record is built
C1_TierBBeforeExport ==
    \A p \in Runs :
       (run[p].pc = "reconciled"
          /\ ~HasLineItems(extract_cart_from_tool_calls(run[p].tool_calls_data)))
       => \E i \in DOMAIN run[p].steps :
             run[p].steps[i] = "_extract_cart_from_agent_response"

\* Tier A applied to one record alone
Alone(call) == extract_cart_from_tool_calls(<<call>>)

\* the get_cart_content records of a sequence that yield at least one line item
Winners(calls) ==
    {i \in DOMAIN calls :
        calls[i].tool_name = GetCartContent /\ HasLineItems(Alone(calls[i]))}

\* C2: Tier A returns the snapshot of the first get_cart_content record that
\* yields at least one line item, whatever records without line items come
\* before it (sequences in which no record makes Tier A fail)
C2_FirstCartWithItemsWins ==
    (fn = "_extract_cart_from_tool_calls"
       /\ Winners(arg.l) # {}
       /\ \A i \in DOMAIN arg.l : ~IsErrorRecord(Alone(arg.l[i])))
    => out = Alone(arg.l[Min(Winners(arg.l))])

\* what a record says of its call, whatever source it was decoded from
RecordCore(recs) ==
    [i \in DOMAIN recs |->
       [tool_name |-> recs[i].tool_name, arguments |-> recs[i].arguments,
        result |-> recs[i].result]]

NativeCore(calls) ==
    IF calls.ty # "list" THEN <<>>
    ELSE [i \in DOMAIN calls.l |->
            [tool_name |-> calls.l[i].name, arguments |-> calls.l[i].arguments,
             result |-> calls.l[i].result]]

RECURSIVE CycleCore(_, _)
CycleCore(cycles, i) ==
    IF i > Len(cycles) THEN <<>>
    ELSE NativeCore(cycles[i].tool_calls) \o CycleCore(cycles, i + 1)

\* the calls of each of the four sources of an agent result, in call order
SourceCalls(result) ==
    {IF result.cycles.ty = "list" THEN CycleCore(result.cycles.l, 1) ELSE <<>>,
     NativeCore(result.tool_calls),
     IF result.state = PyNone THEN <<>> ELSE NativeCore(result.state.tool_calls),
     RecordCore(parse_tool_calls_from_response(result.text))}

\* C3: the records _extract_tool_calls returns are the calls of exactly one
\* source, in that source's order, or no records at all
C3_SingleSource ==
    fn = "_extract_tool_calls"
    => (out.l = <<>> \/ RecordCore(out.l) \in SourceCalls(arg))

\* the text Tier B captures from a transcript that has a cart entry
Captured(agent_response) == Strip(CartMatch(agent_response)[1])

\* the line items each Tier B pattern extracts from a captured text when the
\* pattern is tried on its own
PatternItems(cart_text) ==
    LET lines == Split(cart_text, <<NL>>)
        tried == <<IF Applies0(cart_text) THEN Format0(EmptyCart, cart_text) ELSE EmptyCart,
                   IF Applies1(cart_text) THEN Format1(EmptyCart, cart_text, lines) ELSE EmptyCart,
                   IF Applies2(cart_text) THEN Format2(EmptyCart, cart_text) ELSE EmptyCart,
                   IF Applies3(cart_text) THEN Format3(EmptyCart, cart_text) ELSE EmptyCart,
                   IF Applies4(cart_text) THEN Format4(EmptyCart, cart_text) ELSE EmptyCart,
                   Format5(EmptyCart, lines)>>
    IN  [k \in DOMAIN tried |-> IF tried[k].exc = "none" THEN tried[k].items ELSE <<>>]

\* C4: Tier B returns a snapshot whenever one of its patterns extracts at
\* least one line item from the captured text
C4_AnyPatternWithItemsWins ==
    (fn = "_extract_cart_from_agent_response"
       /\ CartMatch(arg.s) # <<>>
       /\ \E k \in 1..6 : PatternItems(Captured(arg.s))[k] # <<>>)
    => HasLineItems(out)

RECURSIVE CountOf(_, _)
CountOf(s, tok) ==
    IF s = <<>> THEN 0 ELSE (IF Head(s) = tok THEN 1 ELSE 0) + CountOf(Tail(s), tok)

\* a captured text "<int> item(s) in cart: ..." that lists several items
MultiItemInCart(cart_text) ==
    LET cart_match == Search(RE_InCart, cart_text)
    IN  /\ cart_match # <<>>
        /\ CountOf(cart_match[1].caps[2], "(") > 1

\* C5: from a multi-item "<int> item(s) in cart:" text Tier B produces no
\* snapshot
C5_MultiItemNotParsed ==
    (fn = "_extract_cart_from_agent_response"
       /\ CartMatch(arg.s) # <<>>
       /\ MultiItemInCart(Captured(arg.s)))
    => out.ty # "dict"

\* C6: a malformed numeric literal in a cart never makes Tier A return the
\* error record of the failed conversion
C6_BadNumberNotSurfaced ==
    fn = "_extract_cart_from_tool_calls" => out # ErrorRecord("ValueError")

\* C7: no core function lets an exception escape: what it returns is a
\* value, never a raised exception
C7_NoExceptionEscapes == out.ty # "exc"

\* an exception raised inside Tier A came back as an error record
C7_FailureReturnedAsValue ==
    /\ fn = "_extract_cart_from_tool_calls"
    /\ out = ErrorRecord("TypeError")

\* C8: the export record of every run that wrote one is still in the file
\* the run wrote
C8_ExportNeverOverwritten ==
    \A p \in Runs :
       run[p].filepath # PyNone
       => (run[p].filepath.s \in DOMAIN files /\ files[run[p].filepath.s].task = Task(p))

\* the summary section as the transcript shows it: the lines after the
\* marker line up to the first blank line or the end of the text
IsToolLine(line) == StartsWith(Strip(line), DashTool)

IsBlankLine(line) == Strip(line) = <<>>

MarkerIndex(lines) ==
    LET hits == {i \in DOMAIN lines : Contains(lines[i], MARKER)}
    IN  IF hits = {} THEN 0 ELSE Min(hits)

SectionLast(lines) ==
    LET blanks == {i \in (MarkerIndex(lines) + 1)..Len(lines) : IsBlankLine(lines[i])}
    IN  IF blanks = {} THEN Len(lines) ELSE Min(blanks) - 1

RECURSIVE Ascending(_)
Ascending(S) == IF S = {} THEN <<>> ELSE <<Min(S)>> \o Ascending(S \ {Min(S)})

\* the positions of the section's '- Tool:' lines, in order
Entries(lines) ==
    IF MarkerIndex(lines) = 0 THEN <<>>
    ELSE Ascending({i \in (MarkerIndex(lines) + 1)..SectionLast(lines) : IsToolLine(lines[i])})

LineParts(line) == Split(Drop(Strip(line), 2), PipeSep)

ToolNameOf(line) ==
    LET parts == LineParts(line)
        named == {k \in DOMAIN parts : StartsWith(parts[k], Key("Tool"))}
    IN  IF named = {} THEN <<"unknown">> ELSE Drop(parts[Min(named)], 3)

\* the two-space-indented lines that continue an entry, stripped
RECURSIVE Continuations(_, _)
Continuations(lines, j) ==
    IF \/ j > Len(lines)
       \/ ~StartsWith(lines[j], <<SP, SP>>)
       \/ IsBlankLine(lines[j])
       \/ IsToolLine(lines[j])
      THEN <<>>
      ELSE <<Strip(lines[j])>> \o Continuations(lines, j + 1)

\* the Result text of the entry on line i: its first line, if not empty, and
\* its continuation lines
ResultText(lines, i) ==
    LET parts == LineParts(lines[i])
        given == {k \in DOMAIN parts : StartsWith(parts[k], Key("Result"))}
        first == IF given = {} THEN <<>> ELSE Strip(Drop(parts[Min(given)], 3))
    IN  IF given = {} THEN <<>>
        ELSE (IF first = <<>> THEN <<>> ELSE <<first>>) \o Continuations(lines, i + 1)

\* the record carries every line of the text in its cart_summary
Stores(call, text) ==
    /\ "cart_summary" \in DOMAIN call.result.d
    /\ \A k \in DOMAIN text : Contains(call.result.d["cart_summary"].s, text[k])

CartEntries(lines) ==
    {i \in DOMAIN lines :
        /\ \E k \in DOMAIN Entries(lines) : Entries(lines)[k] = i
        /\ ToolNameOf(lines[i]) = GetCartContent
        /\ ResultText(lines, i) # <<>>}

\* C9: the Result text of every get_cart_content entry of the summary
\* section is stored in a get_cart_content record, and in no record of
\* another tool
C9_CartTextInOwnRecord ==
    fn = "_parse_tool_calls_from_response"
    => LET lines == Split(arg.s, <<NL>>)
       IN  \A i \in CartEntries(lines) :
              /\ \E j \in DOMAIN out.l :
                    out.l[j].tool_name = GetCartContent
                    /\ Stores(out.l[j], ResultText(lines, i))
              /\ \A j \in DOMAIN out.l :
                    out.l[j].tool_name # GetCartContent
                    => ~Stores(out.l[j], ResultText(lines, i))

\* the section's end is where the entries end: no '- Tool:' line comes after
\* the first blank line
EntriesEndSection(lines) ==
    \A i \in (SectionLast(lines) + 1)..Len(lines) : ~IsToolLine(lines[i])

\* C10: the parser returns one record per '- Tool:' line of the summary
\* section, in the order of the lines, whether the section ends at a blank
\* line or at the end of the text
C10_OneRecordPerToolLine ==
    (fn = "_parse_tool_calls_from_response" /\ EntriesEndSection(Split(arg.s, <<NL>>)))
    => LET lines == Split(arg.s, <<NL>>)
           entries == Entries(lines)
       IN  /\ Len(out.l) = Len(entries)
           /\ \A k \in DOMAIN entries : out.l[k].tool_name = ToolNameOf(lines[entries[k]])

\* the records come from a native structured history: the native extraction
\* found calls, or the transcript has no summary to decode
FromNativeHistory(result) ==
    \/ extract_actual_tool_calls(result) # <<>>
    \/ parse_tool_calls_from_response(result.text) = <<>>

\* C11: every record _extract_tool_calls decodes from a native structured
\* history has status "success" when its result is present and "unknown"
\* when it is not
C11_NativeStatusFromResult ==
    (fn = "_extract_tool_calls" /\ FromNativeHistory(arg))
    => \A i \in DOMAIN out.l :
          out.l[i].status = IF out.l[i].result # PyNone THEN "success" ELSE "unknown"

IsSnapshot(v) == v.ty = "dict" /\ "items" \in DOMAIN v.d

NonNegative(v) == (v.ty = "int" /\ v.v >= 0) \/ (v.ty = "float" /\ v.c >= 0)

\* C12: every snapshot Tier A or Tier B returns has total_items >= 0,
\* total_price >= 0 and price >= 0 in every line item
C12_SnapshotNonNegative ==
    (fn \in {"_extract_cart_from_tool_calls", "_extract_cart_from_agent_response"}
       /\ IsSnapshot(out))
    => /\ NonNegative(out.d["total_items"])
       /\ NonNegative(out.d["total_price"])
       /\ \A k \in DOMAIN out.d["items"].l : NonNegative(out.d["items"].l[k].d["price"])

\* the cart object a get_cart_content record carries: the decoded JSON of its
\* result (or of the result's cart_summary), unwrapped from its 'cart' key
SourceJson(call) ==
    IF call.result.ty = "dict" THEN JsonLoads(call.result.d["cart_summary"])
    ELSE JsonLoads(call.result)

SourceCart(call) ==
    IF "cart" \in DOMAIN SourceJson(call).d THEN SourceJson(call).d["cart"] ELSE SourceJson(call)

\* the entries of a source cart, listed under 'products' or under 'items'
SourceEntries(cart) ==
    IF "products" \in DOMAIN cart.d THEN cart.d["products"].l
    ELSE IF "items" \in DOMAIN cart.d THEN cart.d["items"].l
    ELSE <<>>

\* the record of the scanned sequence a Tier A snapshot was converted from
SnapshotSource(calls, snapshot) ==
    calls[Min({i \in DOMAIN calls :
                  calls[i].tool_name = GetCartContent /\ Alone(calls[i]) = snapshot})]

RECURSIVE SumQuantities(_)
SumQuantities(items) ==
    IF items = <<>> THEN 0 ELSE Head(items).d["quantity"].v + SumQuantities(Tail(items))

\* C13: in a Tier A snapshot total_items is the source's own total_items
\* when the source has one, and the sum of the line-item quantities when it
\* has none
C13_TotalItemsDerived ==
    (fn = "_extract_cart_from_tool_calls" /\ IsSnapshot(out))
    => LET cart == SourceCart(SnapshotSource(arg.l, out))
       IN  out.d["total_items"] =
              IF "total_items" \in DOMAIN cart.d THEN cart.d["total_items"]
              ELSE PyInt(SumQuantities(out.d["items"].l))

\* C14: every line item of every returned snapshot has a positive integer
\* quantity, which is 1 when the source entry has no quantity
C14_QuantityPositive ==
    /\ (fn \in {"_extract_cart_from_tool_calls", "_extract_cart_from_agent_response"}
          /\ IsSnapshot(out))
       => \A k \in DOMAIN out.d["items"].l :
             /\ out.d["items"].l[k].d["quantity"].ty = "int"
             /\ out.d["items"].l[k].d["quantity"].v >= 1
    /\ (fn = "_extract_cart_from_tool_calls" /\ IsSnapshot(out))
       => LET entries == SourceEntries(SourceCart(SnapshotSource(arg.l, out)))
          IN  \A k \in DOMAIN entries :
                 "quantity" \notin DOMAIN entries[k].d
                 => out.d["items"].l[k].d["quantity"] = PyInt(1)

\* what the add_to_cart records of a sequence contributed
Contributed(call, field) ==
    /\ call.tool_name = AddToCart
    /\ IF field = "total_cost"
         THEN call.result.ty = "dict" /\ field \in DOMAIN call.result.d
         ELSE call.arguments.ty = "dict" /\ field \in DOMAIN call.arguments.d

Accumulated(calls) ==
    \E i \in DOMAIN calls, field \in {"products", "quantity", "total_cost"} :
       Contributed(calls[i], field)

\* the total_cost accumulated last
LastCost(calls) ==
    calls[CHOOSE i \in DOMAIN calls :
            /\ Contributed(calls[i], "total_cost")
            /\ \A j \in DOMAIN calls : Contributed(calls[j], "total_cost") => j <= i
         ].result.d["total_cost"]

IsCartSummary(v) == v.ty = "str" /\ StartsWith(v.s, <<"Cart", SP, "Summary", ":">>)

\* C15: for a sequence without get_cart_content records that Tier A scans
\* without failure, it returns the textual summary, carrying the accumulated
\* total_cost, when an add_to_cart record contributed products, quantity or
\* total_cost, and the 'no data' marker only when none did
C15_SummaryWhenAccumulated ==
    (fn = "_extract_cart_from_tool_calls"
       /\ ~IsErrorRecord(out)
       /\ \A i \in DOMAIN arg.l : arg.l[i].tool_name # GetCartContent)
    => IF Accumulated(arg.l)
         THEN /\ IsCartSummary(out)
              /\ (\E i \in DOMAIN arg.l : Contributed(arg.l[i], "total_cost"))
                 => Contains(out.s, <<"Total", SP, "Cost", ":", SP>> \o LastCost(arg.l).s)
         ELSE out = NoCartItems

\* a money value as the source writes it: a non-negative number, or a text
\* of digits with a period or a comma before the decimals, possibly with a
\* euro sign and blanks around it; MoneyValue is the number it denotes
MoneyDigit(tok) == tok \notin {"€", SP}

MoneyText(s) ==
    LET t == SelectSeq(s, MoneyDigit)
    IN  [i \in DOMAIN t |-> IF t[i] = "," THEN "." ELSE t[i]]

MoneyValue(v) ==
    IF v.ty \in {"int", "float"} THEN PyFloatOf(v)
    ELSE IF v.ty = "str" THEN UnsignedFloat(MoneyText(v.s))
    ELSE PyExc("ValueError")

IsMoney(v) == ~IsExc(MoneyValue(v)) /\ NonNegative(MoneyValue(v))

\* the total of a source cart, under 'total_price' or under 'total'
SourceTotal(cart) ==
    IF "total_price" \in DOMAIN cart.d THEN cart.d["total_price"] ELSE cart.d["total"]

\* the record's result embeds a JSON cart with at least one product entry,
\* every entry with a name and a price, and a total
EmbedsCart(call) ==
    /\ call.tool_name = GetCartContent
    /\ \/ call.result.ty = "str"
       \/ (call.result.ty = "dict" /\ "cart_summary" \in DOMAIN call.result.d)
    /\ SourceJson(call).ty = "dict"
    /\ SourceCart(call).ty = "dict"
    /\ \/ "products" \in DOMAIN SourceCart(call).d /\ SourceCart(call).d["products"].ty = "list"
       \/ "products" \notin DOMAIN SourceCart(call).d
            /\ "items" \in DOMAIN SourceCart(call).d /\ SourceCart(call).d["items"].ty = "list"
    /\ SourceEntries(SourceCart(call)) # <<>>
    /\ \A k \in DOMAIN SourceEntries(SourceCart(call)) :
          LET entry == SourceEntries(SourceCart(call))[k]
          IN  entry.ty = "dict" /\ {"name", "price"} \subseteq DOMAIN entry.d
                /\ IsMoney(entry.d["price"])
    /\ {"total_price", "total"} \cap DOMAIN SourceCart(call).d # {}
    /\ IsMoney(SourceTotal(SourceCart(call)))

\* the first get_cart_content record of a sequence, reached without failure
FirstCart(calls) ==
    Min({i \in DOMAIN calls : calls[i].tool_name = GetCartContent})

ReachesFirstCart(calls) ==
    /\ \E i \in DOMAIN calls : calls[i].tool_name = GetCartContent
    /\ \A j \in 1..(FirstCart(calls) - 1) : ~IsErrorRecord(Alone(calls[j]))

\* C16: for a get_cart_content record that embeds a JSON cart with at least
\* one product, Tier A returns a snapshot with one line item per product
\* entry, in source order, with the entry's name and normalized price, and
\* with the source's normalized total as total_price
C16_CartConverted ==
    (fn = "_extract_cart_from_tool_calls"
       /\ ReachesFirstCart(arg.l)
       /\ EmbedsCart(arg.l[FirstCart(arg.l)]))
    => LET cart == SourceCart(arg.l[FirstCart(arg.l)])
           entries == SourceEntries(cart)
       IN  /\ IsSnapshot(out)
           /\ Len(out.d["items"].l) = Len(entries)
           /\ \A k \in DOMAIN entries :
                 /\ out.d["items"].l[k].d["name"] = entries[k].d["name"]
                 /\ out.d["items"].l[k].d["price"] = MoneyValue(entries[k].d["price"])
           /\ out.d["total_price"] = MoneyValue(SourceTotal(cart))

\* Tier A converted a cart of two entries listed under 'items', with a comma
\* price and the total under 'total'
C16_TwoEntriesConverted ==
    /\ fn = "_extract_cart_from_tool_calls"
    /\ arg = PyList(<<GetCart(PyStr(CartJsonTwo))>>)
    /\ IsSnapshot(out)
    /\ Len(out.d["items"].l) = 2
    /\ out.d["items"].l[2].d["price"] = PyFloat(79)
    /\ out.d["total_price"] = PyFloat(257)

\* the captured text has neither the JSON array form nor the form of a named
\* pattern, and no line of it is one the generic pattern recognizes
NoPatternMatches(cart_text) ==
    /\ ~Applies0(cart_text)
    /\ ~Applies1(cart_text)
    /\ ~Applies2(cart_text)
    /\ ~Applies3(cart_text)
    /\ ~Applies4(cart_text)
    /\ Format5(EmptyCart, Split(cart_text, <<NL>>)) = EmptyCart

\* C17: when the transcript has a get_cart_content entry whose captured text
\* matches no pattern, Tier B returns the captured text as a string
C17_RawTextFallback ==
    (fn = "_extract_cart_from_agent_response"
       /\ CartMatch(arg.s) # <<>>
       /\ NoPatternMatches(Captured(arg.s)))
    => out = PyStr(Captured(arg.s))

\* Tier B returned the text "Cart is empty" of a get_cart_content entry
C17_PlainTextReturned ==
    /\ fn = "_extract_cart_from_agent_response"
    /\ arg = PyStr(CartLabel \o HeadEmpty)
    /\ out = PyStr(HeadEmpty)

\* C18: for a transcript without the TOOL_CALLS_SUMMARY marker Tier B
\* returns None, whatever else the transcript contains
C18_NoSummaryNoData ==
    (fn = "_extract_cart_from_agent_response" /\ ~Contains(arg.s, MARKER))
    => out = PyNone

\* the generic multi-line pattern is the one that reads the captured text
GenericRuns(cart_text) ==
    /\ ~Applies0(cart_text)
    /\ ~Applies1(cart_text)
    /\ ~Applies2(cart_text)
    /\ ~Applies3(cart_text)
    /\ ~Applies4(cart_text)

\* a line "Total: <decimal> €" and the decimal it gives
TotalLineText(line) == SubSeq(Strip(line), 4, Len(Strip(line)) - 2)

IsTotalLine(line) ==
    /\ StartsWith(Strip(line), <<"Total", ":", SP>>)
    /\ EndsWith(Strip(line), <<SP, "€">>)
    /\ ~IsExc(UnsignedFloat(TotalLineText(line)))

RECURSIVE SumPrices(_)
SumPrices(items) ==
    IF items = <<>> THEN 0 ELSE Head(items).d["price"].c + SumPrices(Tail(items))

\* C19: in a snapshot of the generic multi-line pattern total_items is the
\* sum of the quantities of the item lines; total_price is the value of the
\* trailing 'Total: <decimal> €' line when the text ends with one, and the
\* sum of the item prices when the text has no such line
C19_GenericTotals ==
    (fn = "_extract_cart_from_agent_response"
       /\ CartMatch(arg.s) # <<>>
       /\ GenericRuns(Captured(arg.s))
       /\ IsSnapshot(out))
    => LET lines == Split(Captured(arg.s), <<NL>>)
           items == out.d["items"].l
       IN  /\ out.d["total_items"] = PyInt(SumQuantities(items))
           /\ IsTotalLine(lines[Len(lines)])
              => out.d["total_price"] = UnsignedFloat(TotalLineText(lines[Len(lines)]))
           /\ (\A i \in DOMAIN lines : ~IsTotalLine(lines[i]))
              => out.d["total_price"] = PyFloat(SumPrices(items))

\* the generic pattern read an item line of 0.79 € followed by the trailing
\* line 'Total: 1.68 €'
C19_TrailingTotalOverrides ==
    /\ fn = "_extract_cart_from_agent_response"
    /\ arg = PyStr(CartLabel \o Join(<<HeadNone, PlainItemLine, TotalLine>>, <<NL>>))
    /\ IsSnapshot(out)
    /\ SumPrices(out.d["items"].l) = 79
    /\ out.d["total_price"] = PyFloat(168)

\* the exact value of a number, as numerator and denominator in hundredths
Exact(x) ==
    IF x.ty = "int" THEN [n |-> 100 * x.v, d |-> 1]
    ELSE IF x.ty = "float" THEN [n |-> x.c, d |-> 1]
    ELSE [n |-> IF x.unit = "int" THEN 100 * x.n ELSE x.n, d |-> x.d]

SameNumber(x, y) == Exact(x).n * Exact(y).d = Exact(y).n * Exact(x).d

\* C20: in the MetricsRecord total_duration is the sum of cycle_durations,
\* and average_cycle_time is total_duration / cycle_count when cycle_count > 0
\* and 0 otherwise
C20_AverageByCycleCount ==
    (fn = "_extract_metrics" /\ ~IsErrorRecord(out))
    => LET metrics == arg.metrics
           total == out.d["total_duration"]
       IN  /\ total = PySum(metrics.cycle_durations)
           /\ SameNumber(out.d["average_cycle_time"],
                         IF metrics.cycle_count.v > 0
                           THEN PyDiv(total, metrics.cycle_count) ELSE PyInt(0))

\* the statistics object carries both dictionaries, the list of durations
\* and the per-tool dictionary
WellFormedStats(metrics) ==
    /\ metrics.ty = "obj"
    /\ metrics.accumulated_usage.ty = "dict"
    /\ metrics.accumulated_metrics.ty = "dict"
    /\ metrics.cycle_durations.ty = "list"
    /\ metrics.tool_metrics.ty = "dict"

\* the number r is num / den
RateIs(r, num, den) == Exact(r).n * den = Exact(num).n * Exact(r).d

\* C21: for every tool of the raw statistics success_rate is
\* success_count / call_count and average_time is total_time / call_count
\* when call_count > 0, both are 0 when call_count = 0, and the result is
\* not an error record
C21_ToolRatesGuarded ==
    (fn = "_extract_metrics" /\ WellFormedStats(arg.metrics))
    => /\ ~IsErrorRecord(out)
       /\ DOMAIN out.d["tool_metrics"].d = DOMAIN arg.metrics.tool_metrics.d
       /\ \A t \in DOMAIN arg.metrics.tool_metrics.d :
             LET tm == arg.metrics.tool_metrics.d[t]
                 o == out.d["tool_metrics"].d[t].d
             IN  IF tm.call_count.v > 0
                   THEN /\ RateIs(o["success_rate"], tm.success_count, tm.call_count.v)
                        /\ RateIs(o["average_time"], tm.total_time, tm.call_count.v)
                   ELSE /\ o["success_rate"] = PyInt(0)
                        /\ o["average_time"] = PyInt(0)

\* the statistics held a tool called twice with one success in 0.50 s and a
\* tool never called
C21_ZeroAndNonZeroCalls ==
    /\ fn = "_extract_metrics"
    /\ WellFormedStats(arg.metrics)
    /\ DOMAIN arg.metrics.tool_metrics.d = {"add_to_cart", "get_cart_content"}
    /\ arg.metrics.tool_metrics.d["get_cart_content"].call_count = PyInt(0)
    /\ out.d["tool_metrics"].d["get_cart_content"].d["success_rate"] = PyInt(0)
    /\ RateIs(out.d["tool_metrics"].d["add_to_cart"].d["average_time"], PyFloat(25), 1)
    /\ RateIs(out.d["tool_metrics"].d["add_to_cart"].d["success_rate"], PyInt(1), 2)

\* C22: when the raw statistics object is present, with its token counters
\* and its durations, _extract_metrics returns a full MetricsRecord and not
\* an error-only record, whichever optional sub-fields are missing
C22_ErrorOnlyWhenStatsAbsent ==
    (fn = "_extract_metrics"
       /\ arg.metrics.ty = "obj"
       /\ arg.metrics.accumulated_usage.ty = "dict"
       /\ arg.metrics.accumulated_metrics.ty = "dict"
       /\ arg.metrics.cycle_durations.ty = "list")
    => ~IsErrorRecord(out)

\* run p got a result from the agent whose statistics cannot be extracted
MetricsFailed(p) ==
    /\ run[p].result # PyNone
    /\ ~WellFormedStats(run[p].result.metrics)

HasStep(p, name) == \E i \in DOMAIN run[p].steps : run[p].steps[i] = name

\* C23: when metrics extraction fails the run is still recorded: tool-call
\* extraction and cart reconciliation follow, the export record carries the
\* error-only metrics, and run_task returns success = true
C23_RunRecordedWithoutMetrics ==
    \A p \in Runs :
       MetricsFailed(p)
       => /\ IsErrorRecord(run[p].metrics_data)
          /\ HasStep(p, "_extract_tool_calls")
          /\ HasStep(p, "_extract_cart_from_tool_calls")
          /\ run[p].pc = "reconciled" => ExportRecord(p).metrics = run[p].metrics_data
          /\ run[p].pc = "done"
             => /\ HasStep(p, "_export_data")
                /\ run[p].returned.success = TRUE
                /\ run[p].returned.metrics = run[p].metrics_data
                /\ (run[p].filepath # PyNone /\ files[run[p].filepath.s].task = Task(p))
                   => files[run[p].filepath.s].metrics = run[p].metrics_data

\* a run without statistics wrote its export record and returned
C23_ExportedWithErrorMetrics ==
    \E p \in Runs :
       /\ MetricsFailed(p)
       /\ run[p].pc = "done"
       /\ run[p].filepath # PyNone
       /\ files[run[p].filepath.s].task = Task(p)
       /\ IsErrorRecord(files[run[p].filepath.s].metrics)
       /\ run[p].returned.success = TRUE

\* run p ended without a result from the agent
FailedRun(p) == run[p].pc = "done" /\ run[p].result = PyNone

\* a failed run invokes no core function and exports nothing; run_task
\* returns success = false with str(e) as error string, no cart data and no
\* metrics
C24_FailedRunSkipsCore ==
    \A p \in Runs :
       FailedRun(p)
       => /\ run[p].steps = <<>>
          /\ run[p].filepath = PyNone
          /\ run[p].metrics_data = PyNone
          /\ run[p].cart_data = PyNone
          /\ run[p].returned.success = FALSE
          /\ run[p].returned.error.ty = "str"
          /\ run[p].returned.error.s \in ExceptionTexts
          /\ run[p].returned.cart_data = PyNone
          /\ run[p].returned.metrics = PyNone

\* C24: when the agent run fails before producing a result no core function
\* is invoked, and run_task returns success = false, a non-empty error
\* string, no cart data and no metrics
C24_FailedRunHasErrorText ==
    \A p \in Runs :
       FailedRun(p)
       => /\ run[p].steps = <<>>
          /\ run[p].returned.success = FALSE
          /\ run[p].returned.error.ty = "str"
          /\ run[p].returned.error.s # <<>>
          /\ run[p].returned.cart_data = PyNone
          /\ run[p].returned.metrics = PyNone

\* a run failed with the exception text 'boom' while the other run went
\* through its export
C24_FailedBesideExported ==
    \E p, r \in Runs :
       /\ FailedRun(p)
       /\ run[p].returned.error = PyStr(<<"boom">>)
       /\ run[r].pc = "done"
       /\ HasStep(r, "_export_data")

\* the steps of a run, in the order of lines 165-195; Tier B only when the
\* condition of line 174 holds
StepOrder(withTierB) ==
    <<"_extract_metrics", "_extract_tool_calls", "_extract_cart_from_tool_calls">>
      \o (IF withTierB THEN <<"_extract_cart_from_agent_response">> ELSE <<>>)
      \o <<"_export_data">>

IsPrefix(s, t) == Len(s) <= Len(t) /\ s = SubSeq(t, 1, Len(s))

\* what the steps before the export produce for a result
TierA(result) == extract_cart_from_tool_calls(extract_tool_calls(result))

TierB(result) == extract_cart_from_agent_response(result.text)

Reconciled(result) ==
    IF NeedsAgentResponse(TierA(result)) /\ Truthy(TierB(result))
      THEN TierB(result) ELSE TierA(result)

\* C25: the steps of a run happen in the fixed order tool-call extraction,
\* Tier A, conditionally Tier B, export; the export record holds the cart,
\* metrics and tool calls those steps produced, and a run exports at most
\* once
C25_FixedStepOrder ==
    \A p \in Runs :
       /\ \E b \in BOOLEAN : IsPrefix(run[p].steps, StepOrder(b))
       /\ (run[p].pc \in {"reconciled", "done"} /\ run[p].result # PyNone)
          => /\ HasStep(p, "_extract_cart_from_agent_response")
                  <=> NeedsAgentResponse(TierA(run[p].result))
             /\ run[p].tool_calls_data = extract_tool_calls(run[p].result)
             /\ run[p].metrics_data = extract_metrics(run[p].result)
             /\ run[p].cart_data = Reconciled(run[p].result)
       /\ (run[p].filepath # PyNone /\ files[run[p].filepath.s].task = Task(p))
          => /\ run[p].steps = StepOrder(NeedsAgentResponse(TierA(run[p].result)))
             /\ files[run[p].filepath.s].cart_data = Reconciled(run[p].result)
             /\ files[run[p].filepath.s].metrics = extract_metrics(run[p].result)
             /\ files[run[p].filepath.s].tool_calls = extract_tool_calls(run[p].result)
       /\ Cardinality({f \in DOMAIN files : files[f].task = Task(p)}) <= 1

\* a run whose Tier A found an empty cart exported the snapshot Tier B read
\* from the transcript, after all the steps
C25_TierBCartExported ==
    \E p \in Runs :
       /\ run[p].result = EmptyCartResult
       /\ run[p].steps = StepOrder(TRUE)
       /\ run[p].filepath # PyNone
       /\ files[run[p].filepath.s].task = Task(p)
       /\ HasLineItems(files[run[p].filepath.s].cart_data)
       /\ files[run[p].filepath.s].tool_calls # <<>>

\* runs p and q reconcile the same (tool_calls, transcript) pair
SamePair(p, q) ==
    /\ run[p].result # PyNone
    /\ run[q].result # PyNone
    /\ run[p].tool_calls_data = run[q].tool_calls_data
    /\ run[p].result.text = run[q].result.text

C27_ReportsNeverFail ==
    fn \in {"generate_detailed_csv", "generate_summary_csv"}
    => /\ out.exc = "none"
       /\ arg # <<>> => Len(out.written) > Len(arg)

\* what each Tier B pattern makes of a captured text when it is the only
\* pattern tried
PatternAlone(cart_text) ==
    LET lines == Split(cart_text, <<NL>>)
    IN  <<IF Applies0(cart_text) THEN Format0(EmptyCart, cart_text) ELSE EmptyCart,
          IF Applies1(cart_text) THEN Format1(EmptyCart, cart_text, lines) ELSE EmptyCart,
          IF Applies2(cart_text) THEN Format2(EmptyCart, cart_text) ELSE EmptyCart,
          IF Applies3(cart_text) THEN Format3(EmptyCart, cart_text) ELSE EmptyCart,
          IF Applies4(cart_text) THEN Format4(EmptyCart, cart_text) ELSE EmptyCart,
          Format5(EmptyCart, lines)>>

\* C28: a Tier B snapshot is produced by exactly one pattern: its line items
\* and both totals are those of a single pattern tried on its own
C28_OnePatternOnly ==
    (fn = "_extract_cart_from_agent_response"
       /\ CartMatch(arg.s) # <<>>
       /\ IsSnapshot(out))
    => \E k \in 1..6 :
          LET cd == PatternAlone(Captured(arg.s))[k]
          IN  /\ cd.exc = "none"
              /\ cd.items # <<>>
              /\ out = Snapshot(cd)

\* the positions of the get_cart_content labels of a transcript
LabelPositions(s) == {i \in DOMAIN s : StartsWithAt(s, i, CartLabel)}

Max(S) == CHOOSE x \in S : \A y \in S : y <= x

\* the transcript from its last get_cart_content label on
FromLastLabel(s) == SubSeq(s, Max(LabelPositions(s)), Len(s))

\* C29: Tier B parses the trailing get_cart_content entry: with several
\* entries in the transcript the result is the one of the last entry, whose
\* block runs from its label to the next '- Tool:' label or the end
C29_LastCartEntryParsed ==
    (fn = "_extract_cart_from_agent_response" /\ LabelPositions(arg.s) # {})
    => out = extract_cart_from_agent_response(FromLastLabel(arg.s))

\* session_state.task_count, 0 before the first call
TaskCount == IF "task_count" \in DOMAIN session_state THEN session_state["task_count"] ELSE 0

\* the four entries a successful run leaves in the session state
LastEntries ==
    [k \in {"last_response", "last_task", "last_metrics", "last_cart"} \cap DOMAIN session_state
       |-> session_state[k]]

\* run p ends successfully in this step
Succeeds(p) == run[p].pc # "done" /\ run'[p].pc = "done" /\ run'[p].returned.success

\* C30: task_count is the number of run_task calls made so far, successful
\* or failed; last_response, last_task, last_metrics and last_cart are the
\* values of the run that succeeded last, and a step in which no run
\* succeeds, a failing run included, leaves them unchanged
C30_SessionStateTracksRuns ==
    [][/\ TaskCount' = Cardinality({p \in Runs : run'[p].pc # "idle"})
       /\ \A p \in Runs :
             Succeeds(p)
             => LastEntries' = [last_response |-> run[p].result.text,
                                last_task |-> Task(p),
                                last_metrics |-> run[p].metrics_data,
                                last_cart |-> run[p].cart_data]
       /\ (\A p \in Runs : ~Succeeds(p)) => LastEntries' = LastEntries]_vars

\* a run failed after another run had succeeded with a cart, and the session
\* state still holds the successful run's task and cart
C30_FailureAfterSuccess ==
    \E p, q \in Runs :
       /\ run[p].pc = "done"
       /\ run[p].returned.success
       /\ HasLineItems(run[p].cart_data)
       /\ FailedRun(q)
       /\ run[q].start_time > run[p].end_time
       /\ TaskCount = 2
       /\ session_state["last_task"] = Task(p)
       /\ session_state["last_cart"] = run[p].cart_data

====
